---------------------------- MODULE Spec2Model ----------------------------
(***************************************************************************)
(* Model of the proving pipeline of pico-proving-service: the ProofTree    *)
(* (proving/gateway/handler/proof_tree.rs), the GatewayHandler             *)
(* (proving/gateway/handler/mod.rs), the gateway loop                      *)
(* (proving/gateway/mod.rs), the emulator's chunk producer                 *)
(* (proving/emulator.rs) and the worker pull loop                          *)
(* (proving/worker/prover/mod.rs).                                         *)
(*                                                                         *)
(* A proof payload (MetaProof) is abstracted to the pair <<first, last>> of  *)
(* the chunks it was built from: the cryptographic content is opaque to    *)
(* the scheduling layer.                                                   *)
(***************************************************************************)
EXTENDS Integers, Sequences, FiniteSets, TLC

(***************************************************************************)
(* Bounds of the model.                                                    *)
(***************************************************************************)
\* largest number of chunks the emulator yields in one run
MaxChunks == 3
\* largest number of prover threads (prover_count) of one run
MaxWorkers == 2
\* indices 0..MaxIndex are used by the standalone ProofTree harness
MaxIndex == 3
\* indices 0..MaxHandlerIndex are used by the standalone GatewayHandler harness
MaxHandlerIndex == 1
\* task identities (app_id, task_id) are 1..MaxKeys
MaxKeys == 1
\* largest number of ProveTaskRequests the service receives
MaxSubmits == 2
\* largest number of GetProvingResultRequests the service receives
MaxLookups == 2

VARIABLES
    \* ---- standalone ProofTree driven by arbitrary valid calls ----
    tree,               \* a ProofTree under direct init_node/set_proof calls
    t_call,             \* the last call made on `tree` and what it returned
    t_inits,            \* the indices init_node was called with on `tree`
    t_merges,           \* number of set_proof calls on `tree` that returned a pair
    \* ---- standalone GatewayHandler driven by arbitrary process calls ----
    handler,            \* a GatewayHandler under direct process calls
    h_call,             \* the last process call on `handler` and what it returned
    \* ---- one pipeline run (prove_task) ----
    num_chunks,         \* number of records the emulator yields in this run
    prover_count,       \* number of prover threads prove_task starts
    chunk_index,        \* emulator: next chunk index to send
    emulator_pc,        \* emulator: "sending" | "done"
    emulator_chan,      \* emulator -> gateway channel (FIFO)
    to_workers,         \* gateway -> workers channel (FIFO, shared by workers)
    to_gateway,         \* workers -> gateway channel (FIFO)
    gateway_handler,    \* GatewayHandler: emulator_complete, proof_tree, embed_proof
    gateway_pc,         \* gateway loop: "running" | "exited" | "panicked"
    completion,         \* the one-shot completion channel: <<>> or <<bytes>>
    prover,             \* per worker: pc, the request it is executing and
                        \* what verify() returned in the arm it ran last
    verify_may_fail,    \* environment: may verify() of the embed proof fail
    merge_log,          \* history: merge requests emitted by the gateway, in order
    applied_log,        \* history: chunk indices whose init_node was applied
    early_proof,        \* history: a chunk proof was applied while a chunk of
                        \* the run was not registered yet
    closed,             \* the channels of the run whose other side is gone
    render_result,      \* history: what prove_embed_onchain returned in the
                        \* gateway's Exit arm: "none" | "ok" | "failed"
    task_pc,            \* prove_task: "await" | "returned"
    task_result,        \* prove_task: the bytes received and the value returned
    \* ---- the service: grpc handlers, the proving queue, the two result tiers ----
    task_chan,          \* grpc -> proving queue channel (FIFO, unbounded)
    submitted,          \* number of tasks GrpcService::prove_task has sent
    queue_pc,           \* queue loop: "recv" | "proving" | "store" | "panicked"
    queue_task,         \* the task of the current loop iteration
    queue_proof,        \* the proof bytes prove_task returned in this iteration
    outputs,            \* ProvingOutputs: the memory table, key -> bytes
    db,                 \* the proofs table of the database, key -> bytes
    lookup,             \* per get_proving_result call: pc, key and the response
    active,             \* history: number of prove_task calls that have not returned
    started_log,        \* history: the tasks dequeued, in order
    done_log            \* history: the loop iterations that ended, in order

tree_vars == <<tree, t_call, t_inits, t_merges>>
handler_vars == <<handler, h_call>>
queue_vars == <<task_chan, submitted, queue_pc, queue_task, queue_proof, outputs, db,
                lookup, active, started_log, done_log>>
run_vars == <<num_chunks, prover_count, chunk_index, emulator_pc, emulator_chan,
              to_workers, to_gateway, gateway_handler, gateway_pc, completion,
              prover, verify_may_fail, merge_log, applied_log,
              early_proof>>
task_vars == <<closed, render_result, task_pc, task_result>>
vars == <<tree, t_call, t_inits, t_merges, handler, h_call, num_chunks, prover_count, chunk_index,
          emulator_pc, emulator_chan, to_workers, to_gateway, gateway_handler,
          gateway_pc, completion, prover, verify_may_fail, merge_log, applied_log,
          early_proof, closed, render_result, task_pc, task_result,
          task_chan, submitted, queue_pc, queue_task, queue_proof, outputs, db,
          lookup, active, started_log, done_log>>

(***************************************************************************)
(* IndexedProof and ProofNode                                              *)
(***************************************************************************)
\* the element of a one-element set: binds a value that is computed once
the(S) == CHOOSE x \in S : TRUE

\* IndexedProof::new
IndexedProof(inner, start_chunk, end_chunk) ==
    [inner |-> inner, start_chunk |-> start_chunk, end_chunk |-> end_chunk]

\* ProofNode::InProgress(proofs)
InProgress(proofs) == [kind |-> "InProgress", proofs |-> proofs]

\* ProofNode::Proved(proof)
Proved(proof) == [kind |-> "Proved", proofs |-> <<proof>>]

\* ProofNode::init
NodeInit == InProgress(<<>>)

is_proved(node) == node.kind = "Proved"

is_in_progress(node) == node.kind = "InProgress"

(***************************************************************************)
(* ProofTree: a BTreeMap from ProofIndex to ProofNode, here a function     *)
(* whose domain is the set of live slots.                                  *)
(***************************************************************************)
EmptyTree == [i \in {} |-> NodeInit]

len(t) == Cardinality(DOMAIN t)

\* mutant: the search goes on to the nearest Proved slot before index
prev_slot_any_proved(t, index) ==
    {j \in DOMAIN t : /\ j < index
                      /\ t[j].kind = "Proved"
                      /\ \A k \in DOMAIN t :
                             (k < index /\ t[k].kind = "Proved") => k <= j}

\* self.tree.range(..index).next_back(): the nearest slot strictly before index
prev_slot(t, index) ==
    {j \in DOMAIN t : j < index /\ \A k \in DOMAIN t : k < index => k <= j}

\* mutant: the search goes on to the nearest Proved slot after index
next_slot_any_proved(t, index) ==
    {j \in DOMAIN t : /\ j > index
                      /\ t[j].kind = "Proved"
                      /\ \A k \in DOMAIN t :
                             (k > index /\ t[k].kind = "Proved") => j <= k}

\* self.tree.range((Excluded(index), Unbounded)).next(): the nearest slot after
next_slot(t, index) ==
    {j \in DOMAIN t : j > index /\ \A k \in DOMAIN t : k > index => j <= k}

\* mutant: a second placeholder for an index replaces the first silently
init_node_overwrite(t, index) ==
    [tree |-> [j \in DOMAIN t \cup {index} |-> IF j = index THEN NodeInit ELSE t[j]],
     ok |-> TRUE]

\* BTreeMap::insert: returns the new map and whether a node was already there
init_node(t, index) ==
    [tree |-> [j \in DOMAIN t \cup {index} |-> IF j = index THEN NodeInit ELSE t[j]],
     ok |-> index \notin DOMAIN t]

NoSibling == [found |-> FALSE, sibling_index |-> 0, proofs |-> <<>>]

\* mutant: the next slot is tried first
index_proofs_right_first(t, index, proof) ==
    LET prev == prev_slot(t, index)
        next == next_slot(t, index)
    IN  IF \E j \in next : is_proved(t[j])
        THEN LET j == CHOOSE j \in next : TRUE
             IN  [found |-> TRUE, sibling_index |-> j,
                  proofs |-> <<proof, t[j].proofs[1]>>]
        ELSE IF \E j \in prev : is_proved(t[j])
        THEN LET j == CHOOSE j \in prev : TRUE
             IN  [found |-> TRUE, sibling_index |-> j,
                  proofs |-> <<t[j].proofs[1], proof>>]
        ELSE NoSibling

\* mutant: only the previous slot is tried
index_proofs_left_only(t, index, proof) ==
    LET prev == prev_slot(t, index)
    IN  IF \E j \in prev : is_proved(t[j])
        THEN LET j == CHOOSE j \in prev : TRUE
             IN  [found |-> TRUE, sibling_index |-> j,
                  proofs |-> <<t[j].proofs[1], proof>>]
        ELSE NoSibling

\* mutant: the pair with the previous slot is built in the wrong order
index_proofs_swapped(t, index, proof) ==
    LET prev == prev_slot(t, index)
        next == next_slot(t, index)
    IN  IF \E j \in prev : is_proved(t[j])
        THEN LET j == CHOOSE j \in prev : TRUE
             IN  [found |-> TRUE, sibling_index |-> j,
                  proofs |-> <<proof, t[j].proofs[1]>>]
        ELSE IF \E j \in next : is_proved(t[j])
        THEN LET j == CHOOSE j \in next : TRUE
             IN  [found |-> TRUE, sibling_index |-> j,
                  proofs |-> <<proof, t[j].proofs[1]>>]
        ELSE NoSibling

\* mutant: the previous slot is taken whenever it holds a proof, Proved or not
index_proofs_any_kind(t, index, proof) ==
    LET prev == prev_slot(t, index)
        next == next_slot(t, index)
    IN  IF \E j \in prev : t[j].proofs # <<>>
        THEN LET j == CHOOSE j \in prev : TRUE
             IN  [found |-> TRUE, sibling_index |-> j,
                  proofs |-> <<t[j].proofs[1], proof>>]
        ELSE IF \E j \in next : is_proved(t[j])
        THEN LET j == CHOOSE j \in next : TRUE
             IN  [found |-> TRUE, sibling_index |-> j,
                  proofs |-> <<proof, t[j].proofs[1]>>]
        ELSE NoSibling

\* set_proof, first half: the previous slot if it is Proved, else the next
\* slot if it is Proved, else nothing
index_proofs(t, index, proof) ==
    LET prev == prev_slot(t, index)
        next == next_slot(t, index)
    IN  IF \E j \in prev : is_proved(t[j])
        THEN LET j == CHOOSE j \in prev : TRUE
             IN  [found |-> TRUE, sibling_index |-> j,
                  proofs |-> <<t[j].proofs[1], proof>>]
        ELSE IF \E j \in next : is_proved(t[j])
        THEN LET j == CHOOSE j \in next : TRUE
             IN  [found |-> TRUE, sibling_index |-> j,
                  proofs |-> <<proof, t[j].proofs[1]>>]
        ELSE NoSibling

\* mutant: the sibling stays in the map
remove_keep(t, index) == t

\* mutant: the slots before the sibling leave the map with it
remove_up_to(t, index) == [j \in {k \in DOMAIN t : k > index} |-> t[j]]

\* BTreeMap::remove
remove(t, index) == [j \in DOMAIN t \ {index} |-> t[j]]

\* mutant: the slot of a pending merge is stored as Proved
node_to_set_proved(ip, proof) == Proved(proof)

\* set_proof, the match on index_proofs: the node written to the slot
node_to_set(ip, proof) ==
    IF ip.found THEN InProgress(ip.proofs) ELSE Proved(proof)

\* mutant: the pending merge is stored at the sibling and index is removed
set_proof_at_sibling(t, index, proof) ==
    the({ IF ip.found
          THEN [tree |-> [j \in DOMAIN t \ {index} |->
                            IF j = ip.sibling_index THEN InProgress(ip.proofs)
                            ELSE t[j]],
                ret |-> ip.proofs,
                ok |-> index \in DOMAIN t]
          ELSE [tree |-> [j \in DOMAIN t |-> IF j = index THEN Proved(proof) ELSE t[j]],
                ret |-> <<>>,
                ok |-> index \in DOMAIN t]
          : ip \in {index_proofs(t, index, proof)} })

\* mutant: a proof that finds no Proved neighbour is dropped with its slot
set_proof_drops_unpaired(t, index, proof) ==
    the({ IF ip.found
          THEN [tree |-> [j \in DOMAIN t \ {ip.sibling_index} |->
                            IF j = index THEN InProgress(ip.proofs) ELSE t[j]],
                ret |-> ip.proofs,
                ok |-> index \in DOMAIN t]
          ELSE [tree |-> [j \in DOMAIN t \ {index} |-> t[j]],
                ret |-> <<>>,
                ok |-> index \in DOMAIN t]
          : ip \in {index_proofs(t, index, proof)} })

\* ProofTree::set_proof: the new map, the returned pair (<<>> for None), and
\* whether get_mut(&index).unwrap() found the slot
set_proof(t, index, proof) ==
    the({ the({ [tree |-> [j \in DOMAIN t1 |->
                             IF j = index THEN node_to_set(ip, proof) ELSE t1[j]],
                 ret |-> ip.proofs,
                 ok |-> index \in DOMAIN t1]
                : t1 \in {IF ip.found THEN remove(t, ip.sibling_index) ELSE t} })
          : ip \in {index_proofs(t, index, proof)} })

(***************************************************************************)
(* GatewayMsg                                                              *)
(***************************************************************************)
EmulatorComplete == [tag |-> "EmulatorComplete"]

RequestTask == [tag |-> "RequestTask"]

Exit == [tag |-> "Exit"]

NoMsg == [tag |-> "None"]

RiscvRequest(index) == [tag |-> "RiscvRequest", chunk_index |-> index]

RiscvResponse(index, proof) ==
    [tag |-> "RiscvResponse", chunk_index |-> index, proof |-> proof]

CombineRequest(flag, index, proofs) ==
    [tag |-> "CombineRequest", flag_complete |-> flag, chunk_index |-> index,
     proofs |-> proofs]

CombineResponse(index, proof) ==
    [tag |-> "CombineResponse", chunk_index |-> index, proof |-> proof]

Embed(proof) == [tag |-> "Embed", proof |-> proof]

(***************************************************************************)
(* GatewayHandler                                                          *)
(***************************************************************************)
\* GatewayHandler::new
HandlerNew ==
    [emulator_complete |-> FALSE, proof_tree |-> EmptyTree, embed_proof |-> <<>>]

\* GatewayHandler::complete
complete(h) == h.embed_proof # <<>>

\* mutant: the flag is taken from a length of at most two
flag_complete_early(t) == len(t) <= 2

\* the flag_complete field of a CombineRequest
flag_complete(t) == len(t) = 1

\* mutant: the placeholder is not saved
register_chunk_skip(t, index) == [tree |-> t, ok |-> TRUE]

\* process_riscv_req: save the placeholder for the processing proof
register_chunk(t, index) == init_node(t, index)

\* GatewayHandler::process_riscv_req: the handler after the call and whether it
\* returned (ok) or panicked
process_riscv_req(h, msg) ==
    IF msg.tag = "RiscvRequest"
    THEN the({ [h |-> [h EXCEPT !.proof_tree = r.tree], out |-> NoMsg, ok |-> r.ok]
               : r \in {register_chunk(h.proof_tree, msg.chunk_index)} })
    ELSE [h |-> h, out |-> NoMsg, ok |-> FALSE]

\* GatewayHandler::process, the match on the message: the handler after it, the
\* pair to combine with its index, and whether the match returned or panicked
process_match(h, msg) ==
    CASE msg.tag = "EmulatorComplete" ->
            [h |-> [h EXCEPT !.emulator_complete = TRUE], pair |-> <<>>,
             index |-> 0, ok |-> TRUE]
      [] msg.tag = "RiscvRequest" ->
            the({ [h |-> [h EXCEPT !.proof_tree = r.tree], pair |-> <<>>,
                   index |-> 0, ok |-> r.ok]
                  : r \in {init_node(h.proof_tree, msg.chunk_index)} })
      [] msg.tag \in {"RiscvResponse", "CombineResponse"} ->
            the({ [h |-> [h EXCEPT !.proof_tree = r.tree], pair |-> r.ret,
                   index |-> msg.chunk_index, ok |-> r.ok]
                  : r \in {set_proof(h.proof_tree, msg.chunk_index, msg.proof)} })
      [] msg.tag = "Embed" ->
            [h |-> [h EXCEPT !.embed_proof = <<msg.proof>>], pair |-> <<>>,
             index |-> 0, ok |-> TRUE]
      [] OTHER ->
            [h |-> h, pair |-> <<>>, index |-> 0, ok |-> FALSE]

\* GatewayHandler::process
process(h, msg) ==
    the({ IF ~m.ok THEN [h |-> m.h, out |-> NoMsg, ok |-> FALSE]
          ELSE IF complete(m.h) THEN [h |-> m.h, out |-> Exit, ok |-> TRUE]
          ELSE IF m.pair # <<>>
          THEN [h |-> m.h,
                out |-> CombineRequest(flag_complete(m.h.proof_tree), m.index, m.pair),
                ok |-> TRUE]
          ELSE [h |-> m.h, out |-> NoMsg, ok |-> TRUE]
          : m \in {process_match(h, msg)} })

(***************************************************************************)
(* Stage functions, on the range a proof covers                            *)
(***************************************************************************)
\* RiscvConvertHandler::process
convert(req) ==
    RiscvResponse(req.chunk_index,
        IndexedProof(<<req.chunk_index, req.chunk_index>>, req.chunk_index,
                     req.chunk_index))

\* CombineMachine::prove_two: one proof built from the two it is given
prove_two(meta_a, meta_b) == <<meta_a[1], meta_b[2]>>

\* mutant: the reply is indexed by the first chunk of the range it covers
combine_indexed_by_start(req) ==
    [res |-> CombineResponse(req.proofs[1].start_chunk,
                 IndexedProof(prove_two(req.proofs[1].inner, req.proofs[2].inner),
                              req.proofs[1].start_chunk, req.proofs[2].end_chunk)),
     ok |-> req.proofs[1].end_chunk + 1 = req.proofs[2].start_chunk]

\* CombineHandler::process: the response, and whether the adjacency assertion held
combine(req) ==
    [res |-> CombineResponse(req.chunk_index,
                 IndexedProof(prove_two(req.proofs[1].inner, req.proofs[2].inner),
                              req.proofs[1].start_chunk, req.proofs[2].end_chunk)),
     ok |-> req.proofs[1].end_chunk + 1 = req.proofs[2].start_chunk]

\* CompressHandler::process: a proof of the same chunks, indexed by chunk_index
compress(req) ==
    [chunk_index |-> req.chunk_index,
     proof |-> IndexedProof(req.proof.inner, req.chunk_index, req.chunk_index)]

\* EmbedHandler::process: a proof of the same chunks, indexed by chunk_index
embed(req) ==
    [chunk_index |-> req.chunk_index,
     proof |-> IndexedProof(req.proof.inner, req.chunk_index, req.chunk_index)]

\* prove_embed_onchain: the bytes of the on-chain proof, never empty
render(embed_proof) == <<embed_proof>>

(***************************************************************************)
(* Standalone ProofTree: any valid sequence of init_node / set_proof calls *)
(* (one init per index, a proof only for a slot that awaits one).          *)
(***************************************************************************)
NoProof == IndexedProof(<<0, 0>>, 0, 0)

NoCall == [op |-> "none", index |-> 0, proof |-> NoProof, ret |-> <<>>]

\* the proof a caller hands to set_proof for a slot: the chunk proof of a
\* fresh slot (RiscvConvertHandler::process), or the combination of the two
\* proofs the slot holds (CombineHandler::process)
proof_for(node, index) ==
    IF node.proofs = <<>>
    THEN convert(RiscvRequest(index)).proof
    ELSE combine(CombineRequest(FALSE, index, node.proofs)).res.proof

TreeInit ==
    /\ tree = EmptyTree
    /\ t_call = NoCall
    /\ t_inits = {}
    /\ t_merges = 0

TreeInitNode(i) ==
    /\ i \notin t_inits
    /\ tree' = init_node(tree, i).tree
    /\ t_call' = [op |-> "init_node", index |-> i, proof |-> NoProof, ret |-> <<>>]
    /\ t_inits' = t_inits \cup {i}
    /\ UNCHANGED t_merges

TreeSetProof(i) ==
    /\ i \in DOMAIN tree
    /\ is_in_progress(tree[i])
    /\ \E p \in {proof_for(tree[i], i)} :
       \E r \in {set_proof(tree, i, p)} :
           /\ tree' = r.tree
           /\ t_call' = [op |-> "set_proof", index |-> i, proof |-> p, ret |-> r.ret]
           /\ t_merges' = IF r.ret # <<>> THEN t_merges + 1 ELSE t_merges
    /\ UNCHANGED t_inits

(***************************************************************************)
(* Standalone GatewayHandler: any sequence of process calls, each with any *)
(* message of the protocol, until a call panics.                           *)
(***************************************************************************)
NoProcessCall == [msg |-> NoMsg, out |-> NoMsg, ok |-> TRUE]

\* the messages a caller can hand to process on handler h
HandlerMsgs(h) ==
    {EmulatorComplete, RequestTask, Exit}
        \cup {RiscvRequest(i) : i \in 0..MaxHandlerIndex}
        \cup {convert(RiscvRequest(i)) : i \in 0..MaxHandlerIndex}
        \cup {CombineResponse(i, proof_for(h.proof_tree[i], i)) :
                  i \in {j \in DOMAIN h.proof_tree : Len(h.proof_tree[j].proofs) = 2}}
        \cup {Embed(<<0, k>>) : k \in 0..MaxHandlerIndex}

HandlerInit ==
    /\ handler = HandlerNew
    /\ h_call = NoProcessCall

\* one call handler.process(msg); a panic ends the thread that owns the handler
HandlerProcess(msg) ==
    /\ h_call.ok
    /\ \E r \in {process(handler, msg)} :
           /\ handler' = r.h
           /\ h_call' = [msg |-> msg, out |-> r.out, ok |-> r.ok]

\* one call handler.process_riscv_req(msg), as the producer branch of the
\* gateway makes it for a chunk-ready event
HandlerProcessRiscvReq(msg) ==
    /\ h_call.ok
    /\ \E r \in {process_riscv_req(handler, msg)} :
           /\ handler' = r.h
           /\ h_call' = [msg |-> msg, out |-> r.out, ok |-> r.ok]

(***************************************************************************)
(* One pipeline run: prove_task starts the gateway and the provers, then   *)
(* runs the emulator.  The provers share one endpoint of the duplex        *)
(* channel: a message the gateway sends is received by exactly one prover. *)
(***************************************************************************)
Workers == 1..prover_count

\* what prove_task holds: the bytes it received through the completion signal
\* and the value it returned ("none" until it returns)
TaskResult(kind, bytes, provers, gateway) ==
    [kind |-> kind, bytes |-> bytes, provers |-> provers, gateway |-> gateway]

NoResult == TaskResult("none", <<>>, "none", "none")

ProverIdle(pc) == [pc |-> pc, msg |-> NoMsg, verified |-> "none"]

RunInit ==
    /\ num_chunks \in 1..MaxChunks
    /\ prover_count \in 1..MaxWorkers
    /\ verify_may_fail \in BOOLEAN
    /\ chunk_index = 0
    /\ emulator_pc = "sending"
    /\ emulator_chan = <<>>
    /\ to_workers = <<>>
    /\ to_gateway = <<>>
    /\ gateway_handler = HandlerNew
    /\ gateway_pc = "running"
    /\ completion = <<>>
    /\ prover = [w \in Workers |-> ProverIdle("start")]
    /\ merge_log = <<>>
    /\ applied_log = <<>>
    /\ early_proof = FALSE
    /\ closed = {}
    /\ render_result = "none"
    /\ task_pc = "await"
    /\ task_result = NoResult

\* EmulatorRunner::run, the body of the while loop: one record is sent
EmulatorSendChunk ==
    /\ emulator_pc = "sending"
    /\ chunk_index < num_chunks
    /\ emulator_chan' = Append(emulator_chan, RiscvRequest(chunk_index))
    /\ chunk_index' = chunk_index + 1
    /\ UNCHANGED <<num_chunks, prover_count, emulator_pc, to_workers, to_gateway,
                   gateway_handler, gateway_pc, completion, prover,
                   verify_may_fail, merge_log, applied_log,
                   early_proof>>
    /\ UNCHANGED <<tree_vars, handler_vars, queue_vars, task_vars>>

\* EmulatorRunner::run, after the loop: the emulator complete message
EmulatorSendComplete ==
    /\ emulator_pc = "sending"
    /\ chunk_index = num_chunks
    /\ emulator_chan' = Append(emulator_chan, EmulatorComplete)
    /\ emulator_pc' = "done"
    /\ UNCHANGED <<num_chunks, prover_count, chunk_index, to_workers, to_gateway,
                   gateway_handler, gateway_pc, completion, prover,
                   verify_may_fail, merge_log, applied_log,
                   early_proof>>
    /\ UNCHANGED <<tree_vars, handler_vars, queue_vars, task_vars>>

\* mutant: the emulator complete message is sent on to the workers as well
gateway_emulator_branch_forwards_all(h, msg) ==
    IF msg.tag = "RiscvRequest"
    THEN the({ IF r.ok /\ r.out = NoMsg
               THEN [h |-> r.h, pc |-> "running", send |-> <<msg>>]
               ELSE [h |-> r.h, pc |-> "panicked", send |-> <<>>]
               : r \in {process_riscv_req(h, msg)} })
    ELSE IF msg.tag = "EmulatorComplete"
    THEN the({ IF ~r.ok THEN [h |-> r.h, pc |-> "panicked", send |-> <<>>]
               ELSE IF r.out = Exit THEN [h |-> r.h, pc |-> "exited", send |-> <<>>]
               ELSE [h |-> r.h, pc |-> "running", send |-> <<msg>>]
               : r \in {process(h, msg)} })
    ELSE [h |-> h, pc |-> "panicked", send |-> <<>>]

\* gateway::run, the emulator branch of the select on one message: the handler
\* after it, the loop's position and the messages sent to the workers
gateway_emulator_branch(h, msg) ==
    IF msg.tag = "RiscvRequest"
    THEN the({ IF r.ok /\ r.out = NoMsg
               THEN [h |-> r.h, pc |-> "running", send |-> <<msg>>]
               ELSE [h |-> r.h, pc |-> "panicked", send |-> <<>>]
               : r \in {process_riscv_req(h, msg)} })
    ELSE IF msg.tag = "EmulatorComplete"
    THEN the({ IF ~r.ok THEN [h |-> r.h, pc |-> "panicked", send |-> <<>>]
               ELSE IF r.out = Exit THEN [h |-> r.h, pc |-> "exited", send |-> <<>>]
               ELSE [h |-> r.h, pc |-> "running", send |-> <<>>]
               : r \in {process(h, msg)} })
    ELSE [h |-> h, pc |-> "panicked", send |-> <<>>]

\* mutant: every message of a branch reaches the workers twice
endpoint_send_twice(send, pc, closed_set) ==
    IF send # <<>> /\ "workers" \in closed_set
    THEN [sent |-> <<>>, pc |-> "panicked"]
    ELSE [sent |-> send \o send, pc |-> pc]

\* grpc_endpoint.send(msg).unwrap() for each message of a branch: the messages
\* that reach the channel and the position of the loop; a send fails, and the
\* unwrap panics, when every endpoint of the worker side is gone
endpoint_send(send, pc, closed_set) ==
    IF send # <<>> /\ "workers" \in closed_set
    THEN [sent |-> <<>>, pc |-> "panicked"]
    ELSE [sent |-> send, pc |-> pc]

\* gateway::run, recv(emulator_receiver): the first branch of select_biased
GatewayRecvEmulator ==
    /\ gateway_pc = "running"
    /\ emulator_chan # <<>>
    /\ \E msg \in {Head(emulator_chan)} :
       \E b \in {gateway_emulator_branch(gateway_handler, msg)} :
       \E e \in {endpoint_send(b.send, b.pc, closed)} :
           /\ emulator_chan' = Tail(emulator_chan)
           /\ gateway_handler' = b.h
           /\ gateway_pc' = e.pc
           /\ to_workers' = to_workers \o e.sent
           /\ applied_log' =
                  IF /\ msg.tag = "RiscvRequest"
                     /\ msg.chunk_index \notin DOMAIN gateway_handler.proof_tree
                     /\ msg.chunk_index \in DOMAIN b.h.proof_tree
                  THEN Append(applied_log, msg.chunk_index)
                  ELSE applied_log
    /\ UNCHANGED <<num_chunks, prover_count, chunk_index, emulator_pc, to_gateway,
                   completion, prover, verify_may_fail, merge_log,
                   early_proof>>
    /\ UNCHANGED <<tree_vars, handler_vars, queue_vars, task_vars>>

\* mutant: the Exit arm publishes and the loop goes on
gateway_worker_branch_no_break(h, msg) ==
    IF msg.tag \in {"RiscvResponse", "CombineResponse", "Embed", "Exit"}
    THEN the({ IF ~r.ok
               THEN [h |-> r.h, pc |-> "panicked", send |-> <<>>, publish |-> FALSE]
               ELSE IF r.out = Exit
               THEN [h |-> r.h, pc |-> "running", send |-> <<>>, publish |-> TRUE]
               ELSE IF r.out # NoMsg
               THEN [h |-> r.h, pc |-> "running", send |-> <<r.out>>,
                     publish |-> FALSE]
               ELSE [h |-> r.h, pc |-> "running", send |-> <<>>, publish |-> FALSE]
               : r \in {process(h, msg)} })
    ELSE IF msg.tag = "RequestTask"
    THEN [h |-> h, pc |-> "running", send |-> <<>>, publish |-> FALSE]
    ELSE [h |-> h, pc |-> "panicked", send |-> <<>>, publish |-> FALSE]

\* gateway::run, the worker branch of the select on one message: the handler
\* after it, the loop's position, the messages sent to the workers and whether
\* the completion signal is sent
gateway_worker_branch(h, msg) ==
    IF msg.tag \in {"RiscvResponse", "CombineResponse", "Embed", "Exit"}
    THEN the({ IF ~r.ok
               THEN [h |-> r.h, pc |-> "panicked", send |-> <<>>, publish |-> FALSE]
               ELSE IF r.out = Exit
               THEN [h |-> r.h, pc |-> "exited", send |-> <<>>, publish |-> TRUE]
               ELSE IF r.out # NoMsg
               THEN [h |-> r.h, pc |-> "running", send |-> <<r.out>>,
                     publish |-> FALSE]
               ELSE [h |-> r.h, pc |-> "running", send |-> <<>>, publish |-> FALSE]
               : r \in {process(h, msg)} })
    ELSE IF msg.tag = "RequestTask"
    THEN [h |-> h, pc |-> "running", send |-> <<>>, publish |-> FALSE]
    ELSE [h |-> h, pc |-> "panicked", send |-> <<>>, publish |-> FALSE]

\* mutant: the bytes are taken from the proof whatever the on-chain phase returned
proof_bytes_unchecked(h, render_ok) ==
    IF h.embed_proof # <<>> THEN render(h.embed_proof[1]) ELSE <<>>

\* gateway::run, the Exit arm: the bytes sent through the completion signal,
\* empty when the on-chain phase fails or no embed proof is stored
proof_bytes(h, render_ok) ==
    IF h.embed_proof # <<>> /\ render_ok THEN render(h.embed_proof[1]) ELSE <<>>

\* gateway::run, recv(grpc_endpoint.receiver()): the second branch of
\* select_biased, taken only when the emulator channel has no message
GatewayRecvWorker ==
    /\ gateway_pc = "running"
    /\ emulator_chan = <<>>
    /\ "emulator" \notin closed
    /\ to_gateway # <<>>
    /\ \E msg \in {Head(to_gateway)} :
       \E b \in {gateway_worker_branch(gateway_handler, msg)} :
       \E e \in {endpoint_send(b.send, b.pc, closed)} :
           /\ to_gateway' = Tail(to_gateway)
           /\ gateway_handler' = b.h
           /\ gateway_pc' = e.pc
           /\ to_workers' = to_workers \o e.sent
           /\ merge_log' = merge_log \o e.sent
           /\ IF b.publish
              THEN \E render_ok \in BOOLEAN :
                       /\ completion' = <<proof_bytes(b.h, render_ok)>>
                       /\ render_result' = IF b.h.embed_proof = <<>> THEN "none"
                                           ELSE IF render_ok THEN "ok" ELSE "failed"
              ELSE completion' = completion /\ render_result' = render_result
           /\ early_proof' =
                  (early_proof \/ (msg.tag = "RiscvResponse"
                                      /\ Len(applied_log) < num_chunks))
    /\ UNCHANGED <<num_chunks, prover_count, chunk_index, emulator_pc,
                   emulator_chan, prover, verify_may_fail, applied_log>>
    /\ UNCHANGED <<tree_vars, handler_vars, queue_vars, closed, task_pc, task_result>>

\* ProverRunner::run, before the loop: request for task first
ProverStart(w) ==
    /\ prover[w].pc = "start"
    /\ to_gateway' = Append(to_gateway, RequestTask)
    /\ prover' = [prover EXCEPT ![w] = ProverIdle("recv")]
    /\ UNCHANGED <<num_chunks, prover_count, chunk_index, emulator_pc,
                   emulator_chan, to_workers, gateway_handler, gateway_pc,
                   completion, verify_may_fail, merge_log, applied_log,
                   early_proof>>
    /\ UNCHANGED <<tree_vars, handler_vars, queue_vars, task_vars>>

\* ProverRunner::run, self.endpoint.recv() and the match on the tag
ProverRecv(w) ==
    /\ prover[w].pc = "recv"
    /\ to_workers # <<>>
    /\ LET msg == Head(to_workers)
       IN  /\ to_workers' = Tail(to_workers)
           /\ prover' = [prover EXCEPT ![w] =
                  IF msg.tag \in {"RiscvRequest", "CombineRequest"}
                  THEN [pc |-> "busy", msg |-> msg, verified |-> "none"]
                  ELSE IF msg = Exit THEN ProverIdle("exited")
                  ELSE ProverIdle("panicked")]
    /\ UNCHANGED <<num_chunks, prover_count, chunk_index, emulator_pc,
                   emulator_chan, to_gateway, gateway_handler, gateway_pc,
                   completion, verify_may_fail, merge_log, applied_log,
                   early_proof>>
    /\ UNCHANGED <<tree_vars, handler_vars, queue_vars, task_vars>>

\* the outcomes verify() of the final embed proof can have in this run
VerifyOutcomes == IF verify_may_fail THEN BOOLEAN ELSE {TRUE}

\* mutant: the final proof is sent but the prover stays in its loop
prover_arm_no_break(req, verified) ==
    IF req.tag = "RiscvRequest"
    THEN [send |-> <<convert(req), RequestTask>>, pc |-> "recv", verified |-> "none"]
    ELSE the({ IF ~c.ok THEN [send |-> <<>>, pc |-> "panicked", verified |-> "none"]
               ELSE IF req.flag_complete /\ verified
               THEN [send |-> <<Embed(embed(compress(c.res)).proof.inner), Exit,
                                RequestTask>>,
                     pc |-> "recv", verified |-> "ok"]
               ELSE [send |-> <<c.res, RequestTask>>, pc |-> "recv",
                     verified |-> IF req.flag_complete THEN "failed" ELSE "none"]
               : c \in {combine(req)} })

\* mutant: a failed verification ends the prover without a reply
prover_arm_break_on_failure(req, verified) ==
    IF req.tag = "RiscvRequest"
    THEN [send |-> <<convert(req), RequestTask>>, pc |-> "recv", verified |-> "none"]
    ELSE the({ IF ~c.ok THEN [send |-> <<>>, pc |-> "panicked", verified |-> "none"]
               ELSE IF req.flag_complete /\ verified
               THEN [send |-> <<Embed(embed(compress(c.res)).proof.inner), Exit>>,
                     pc |-> "exited", verified |-> "ok"]
               ELSE IF req.flag_complete
               THEN [send |-> <<>>, pc |-> "exited", verified |-> "failed"]
               ELSE [send |-> <<c.res, RequestTask>>, pc |-> "recv",
                     verified |-> "none"]
               : c \in {combine(req)} })

\* mutant: on the fast path Exit is sent before the final proof
prover_arm_exit_first(req, verified) ==
    IF req.tag = "RiscvRequest"
    THEN [send |-> <<convert(req), RequestTask>>, pc |-> "recv", verified |-> "none"]
    ELSE the({ IF ~c.ok THEN [send |-> <<>>, pc |-> "panicked", verified |-> "none"]
               ELSE IF req.flag_complete /\ verified
               THEN [send |-> <<Exit, Embed(embed(compress(c.res)).proof.inner)>>,
                     pc |-> "exited", verified |-> "ok"]
               ELSE [send |-> <<c.res, RequestTask>>, pc |-> "recv",
                     verified |-> IF req.flag_complete THEN "failed" ELSE "none"]
               : c \in {combine(req)} })

\* ProverRunner::run, one arm of the match run to its end: the messages the
\* prover sends, its position afterwards and what verify() returned ("none"
\* when the arm does not call it)
prover_arm(req, verified) ==
    IF req.tag = "RiscvRequest"
    THEN [send |-> <<convert(req), RequestTask>>, pc |-> "recv", verified |-> "none"]
    ELSE the({ IF ~c.ok THEN [send |-> <<>>, pc |-> "panicked", verified |-> "none"]
               ELSE IF req.flag_complete /\ verified
               THEN [send |-> <<Embed(embed(compress(c.res)).proof.inner), Exit>>,
                     pc |-> "exited", verified |-> "ok"]
               ELSE [send |-> <<c.res, RequestTask>>, pc |-> "recv",
                     verified |-> IF req.flag_complete THEN "failed" ELSE "none"]
               : c \in {combine(req)} })

\* the outcomes of verify() an arm can see: only the fast path calls it
arm_outcomes(req) ==
    IF req.tag = "CombineRequest" /\ req.flag_complete THEN VerifyOutcomes ELSE {TRUE}

\* ProverRunner::run, the stage work of the request taken and the replies.
\* The sends of one arm are one step: the channel is unbounded, and the gateway
\* ignores RequestTask and leaves its loop on Embed, so a message of another
\* prover that falls between them changes nothing.
ProverRun(w) ==
    /\ prover[w].pc = "busy"
    /\ \E verified \in arm_outcomes(prover[w].msg) :
       \E a \in {prover_arm(prover[w].msg, verified)} :
              /\ to_gateway' = to_gateway \o a.send
              /\ prover' = [prover EXCEPT ![w] =
                               [pc |-> a.pc, msg |-> NoMsg, verified |-> a.verified]]
    /\ UNCHANGED <<num_chunks, prover_count, chunk_index, emulator_pc,
                   emulator_chan, to_workers, gateway_handler, gateway_pc,
                   completion, verify_may_fail, merge_log, applied_log,
                   early_proof>>
    /\ UNCHANGED <<tree_vars, handler_vars, queue_vars, task_vars>>

\* a prover whose thread has ended: it left its loop, or a panic unwound it
ended(p) == p.pc \in {"exited", "panicked", "failed", "send_failed"}

\* the gateway thread has ended without sending through completion_sender, so
\* the sender was dropped with the closure
sender_dropped == completion = <<>> /\ gateway_pc \in {"exited", "closed", "panicked"}

\* mutant: an expired shutdown timeout is returned as an error
TaskReturn_fails_on_timeout ==
    /\ task_pc = "await"
    /\ emulator_pc # "sending"
    /\ completion # <<>> \/ sender_dropped
    /\ task_pc' = "returned"
    /\ \E outcome \in IF completion # <<>> THEN {"joined", "timed_out"} ELSE {"none"} :
           task_result' =
               IF completion # <<>> /\ outcome = "joined"
                                   /\ \A w \in Workers : ended(prover[w])
               THEN TaskResult("ok", completion[1], "joined", outcome)
               ELSE TaskResult("err", <<>>, "none", "none")
    /\ UNCHANGED <<closed, render_result, run_vars, tree_vars, handler_vars, queue_vars>>

\* prove_task from completion_receiver.await? to its return, reached when the
\* call emulator::run has returned.  Nothing bounds the wait for the
\* completion signal.  The error of a dropped sender is
\* returned by `?`.  With the bytes received, timeout(5 s, join_all(provers))
\* is over when every prover thread has ended or when the time is up while one
\* has not, and timeout(5 s, gateway_handle) likewise (the gateway thread has
\* sent the bytes but may not have returned yet); every outcome is only logged
\* and Ok(proof_bytes) is returned.
TaskReturn ==
    /\ task_pc = "await"
    /\ emulator_pc # "sending"
    /\ completion # <<>> \/ sender_dropped
    /\ task_pc' = "returned"
    /\ \E outcome \in IF completion # <<>> THEN {"joined", "timed_out"} ELSE {"none"} :
           task_result' =
               IF completion # <<>>
               THEN TaskResult("ok", completion[1],
                               IF \A w \in Workers : ended(prover[w])
                               THEN "joined" ELSE "timed_out",
                               outcome)
               ELSE TaskResult("err", <<>>, "none", "none")
    /\ UNCHANGED <<closed, render_result, run_vars, tree_vars, handler_vars, queue_vars>>

\* the gateway's side of the duplex channel is gone: prove_task has returned
\* and dropped gateway_worker_channel, and the gateway thread, which held the
\* other handle of endpoint1, has ended
gateway_side_closed == task_pc = "returned" /\ gateway_pc # "running"

\* mutant: recv on the closed channel keeps the prover waiting
prover_after_closure_blocks(p, queue) ==
    IF p.pc = "start"
    THEN [prover |-> ProverIdle("send_failed"), queue |-> queue]
    ELSE IF p.pc = "busy"
    THEN [prover |-> ProverIdle(IF prover_arm(p.msg, TRUE).pc = "panicked"
                                THEN "panicked" ELSE "send_failed"),
          queue |-> queue]
    ELSE IF p.pc = "recv" /\ queue # <<>>
    THEN [prover |-> IF Head(queue).tag \in {"RiscvRequest", "CombineRequest"}
                     THEN [pc |-> "busy", msg |-> Head(queue), verified |-> "none"]
                     ELSE IF Head(queue) = Exit THEN ProverIdle("exited")
                     ELSE ProverIdle("panicked"),
          queue |-> Tail(queue)]
    ELSE [prover |-> p, queue |-> queue]

\* ProverRunner::run once the gateway's side is gone, from the prover's
\* position and the messages still queued for the workers: a send returns Err
\* and its unwrap ends the thread (the first request for a task, or the first
\* reply of the arm after the stage ran); recv still hands out a queued
\* message, and returns Err on the empty channel, which ends the while loop
prover_after_closure(p, queue) ==
    IF p.pc = "start"
    THEN [prover |-> ProverIdle("send_failed"), queue |-> queue]
    ELSE IF p.pc = "busy"
    THEN [prover |-> ProverIdle(IF prover_arm(p.msg, TRUE).pc = "panicked"
                                THEN "panicked" ELSE "send_failed"),
          queue |-> queue]
    ELSE IF p.pc = "recv" /\ queue # <<>>
    THEN [prover |-> IF Head(queue).tag \in {"RiscvRequest", "CombineRequest"}
                     THEN [pc |-> "busy", msg |-> Head(queue), verified |-> "none"]
                     ELSE IF Head(queue) = Exit THEN ProverIdle("exited")
                     ELSE ProverIdle("panicked"),
          queue |-> Tail(queue)]
    ELSE IF p.pc = "recv"
    THEN [prover |-> ProverIdle("exited"), queue |-> queue]
    ELSE [prover |-> p, queue |-> queue]

\* one step of a prover thread that is still alive after the gateway's side
\* of the channel is gone
ProverAfterClosure(w) ==
    /\ gateway_side_closed
    /\ ~ended(prover[w])
    /\ \E r \in {prover_after_closure(prover[w], to_workers)} :
           /\ prover' = [prover EXCEPT ![w] = r.prover]
           /\ to_workers' = r.queue
    /\ UNCHANGED <<num_chunks, prover_count, chunk_index, emulator_pc,
                   emulator_chan, to_gateway, gateway_handler, gateway_pc,
                   completion, verify_may_fail, merge_log, applied_log,
                   early_proof>>
    /\ UNCHANGED <<tree_vars, handler_vars, queue_vars, task_vars>>

\* a stage function called by the prover (convert, combine, compress, embed)
\* panics: nothing catches it and the thread ends with the request it took
ProverStageFails(w) ==
    /\ prover[w].pc = "busy"
    /\ prover' = [prover EXCEPT ![w] = [@ EXCEPT !.pc = "failed"]]
    /\ UNCHANGED <<num_chunks, prover_count, chunk_index, emulator_pc,
                   emulator_chan, to_workers, to_gateway, gateway_handler,
                   gateway_pc, completion, verify_may_fail, merge_log, applied_log,
                   early_proof>>
    /\ UNCHANGED <<tree_vars, handler_vars, queue_vars, task_vars>>

\* every sender of the emulator -> gateway channel is dropped: the emulator
\* sends nothing more
CloseEmulatorChannel ==
    /\ "emulator" \notin closed
    /\ closed' = closed \cup {"emulator"}
    /\ emulator_pc' = IF emulator_pc = "sending" THEN "dropped" ELSE emulator_pc
    /\ UNCHANGED <<num_chunks, prover_count, chunk_index, emulator_chan, to_workers,
                   to_gateway, gateway_handler, gateway_pc, completion, prover,
                   verify_may_fail, merge_log, applied_log, early_proof>>
    /\ UNCHANGED <<render_result, task_pc, task_result, tree_vars, handler_vars, queue_vars>>

\* every endpoint of the worker side of the duplex channel is dropped; a prover
\* holds one as long as its thread runs
CloseWorkerChannel ==
    /\ "workers" \notin closed
    /\ \A w \in Workers : ended(prover[w])
    /\ closed' = closed \cup {"workers"}
    /\ UNCHANGED <<run_vars, render_result, task_pc, task_result, tree_vars, handler_vars,
                   queue_vars>>

\* gateway::run, a recv of select_biased returns Err: the emulator channel is
\* empty and disconnected, or no message is ready on it and the worker channel
\* is empty and disconnected; the loop breaks and completion_sender is dropped
GatewayRecvClosed ==
    /\ gateway_pc = "running"
    /\ emulator_chan = <<>>
    /\ "emulator" \in closed \/ ("workers" \in closed /\ to_gateway = <<>>)
    /\ gateway_pc' = "closed"
    /\ UNCHANGED <<num_chunks, prover_count, chunk_index, emulator_pc,
                   emulator_chan, to_workers, to_gateway, gateway_handler,
                   completion, prover, verify_may_fail, merge_log, applied_log,
                   early_proof>>
    /\ UNCHANGED <<tree_vars, handler_vars, queue_vars, task_vars>>

(***************************************************************************)
(* The service: GrpcService::prove_task submits tasks, ProvingQueue::run   *)
(* proves them one by one and stores the proofs, and                       *)
(* GrpcService::get_proving_result looks a proof up.  A pipeline run is    *)
(* seen here from outside, by what prove_task returns.                     *)
(***************************************************************************)
Keys == 1..MaxKeys

\* ProvingTask::new: the key, the inputs (one value per request) and use_gpu
ProvingTask(key, inputs, use_gpu) ==
    [key |-> key, inputs |-> inputs, use_gpu |-> use_gpu]

NoTask == ProvingTask(0, 0, FALSE)

\* the bytes of the on-chain proof of a task, never empty
proof_of(task) == <<task.key, task.inputs>>

\* proving::prove_task as the queue sees it: Prover::new_cuda is unimplemented
\* and panics; otherwise the call returns the proof bytes, empty bytes when the
\* on-chain phase failed, or the error of the completion receiver
prove_task_results(task) ==
    IF task.use_gpu
    THEN {[kind |-> "panic", bytes |-> <<>>]}
    ELSE {[kind |-> "ok", bytes |-> proof_of(task)],
          [kind |-> "ok", bytes |-> <<>>],
          [kind |-> "err", bytes |-> <<>>]}

NoEntries == [k \in {} |-> <<>>]

\* DashMap::insert
insert(m, key, bytes) ==
    [k \in DOMAIN m \cup {key} |-> IF k = key THEN bytes ELSE m[k]]

\* the proofs table under INSERT OR REPLACE: one row per (app_id, task_id), a
\* write for a key that has a row replaces the row
upsert(table, key, bytes) ==
    [k \in DOMAIN table \cup {key} |-> IF k = key THEN bytes ELSE table[k]]

\* mutant: the entry is read and stays in the table
outputs_get(m, key) ==
    IF key \in DOMAIN m
    THEN [map |-> m, hit |-> TRUE, bytes |-> m[key]]
    ELSE [map |-> m, hit |-> FALSE, bytes |-> <<>>]

\* DashMap::remove: the table without the entry, and the entry if there was one
outputs_remove(m, key) ==
    IF key \in DOMAIN m
    THEN [map |-> [k \in DOMAIN m \ {key} |-> m[k]], hit |-> TRUE, bytes |-> m[key]]
    ELSE [map |-> m, hit |-> FALSE, bytes |-> <<>>]

\* mutant: the query binds another key
select_proof_other_key(table, key) ==
    IF key + 1 \in DOMAIN table
    THEN [found |-> TRUE, bytes |-> table[key + 1]]
    ELSE [found |-> FALSE, bytes |-> <<>>]

\* SELECT proof FROM proofs WHERE app_id = ? AND task_id = ?
select_proof(table, key) ==
    IF key \in DOMAIN table
    THEN [found |-> TRUE, bytes |-> table[key]]
    ELSE [found |-> FALSE, bytes |-> <<>>]

\* a get_proving_result call: where it is, its key, the tier that answered
\* ("memory", "durable", "none" for no proof, "error" for a failed read) and
\* the bytes returned
Lookup(pc, key, tier, bytes) ==
    [pc |-> pc, key |-> key, tier |-> tier, bytes |-> bytes]

NoLookup == Lookup("idle", 0, "none", <<>>)

\* one ended iteration of the queue loop: the task, whether prove_task returned
\* Ok, the bytes, and whether the proof was stored in the database
Iteration(task, ok, bytes, stored) ==
    [task |-> task, ok |-> ok, bytes |-> bytes, stored |-> stored]

QueueInit ==
    /\ task_chan = <<>>
    /\ submitted = 0
    /\ queue_pc = "recv"
    /\ queue_task = NoTask
    /\ queue_proof = <<>>
    /\ outputs = NoEntries
    /\ db = NoEntries
    /\ lookup = [c \in 1..MaxLookups |-> NoLookup]
    /\ active = 0
    /\ started_log = <<>>
    /\ done_log = <<>>

\* GrpcService::prove_task: the task is sent to the queue
GrpcProveTask(key, use_gpu) ==
    /\ submitted < MaxSubmits
    /\ task_chan' = Append(task_chan, ProvingTask(key, submitted + 1, use_gpu))
    /\ submitted' = submitted + 1
    /\ UNCHANGED <<queue_pc, queue_task, queue_proof, outputs, db, lookup, active,
                   started_log, done_log>>

\* mutant: a task is taken while the previous one is still being proved
can_dequeue_while_proving(pc, chan) == pc \in {"recv", "proving"} /\ chan # <<>>

\* ProvingQueue::run, the head of the loop: receiver.recv() is reached when the
\* previous iteration is over, and returns when a task is there
can_dequeue(pc, chan) == pc = "recv" /\ chan # <<>>

\* ProvingQueue::run: receiver.recv() returns a task and prove_task is called
QueueRecv ==
    /\ can_dequeue(queue_pc, task_chan)
    /\ queue_task' = Head(task_chan)
    /\ task_chan' = Tail(task_chan)
    /\ queue_pc' = "proving"
    /\ active' = active + 1
    /\ started_log' = Append(started_log, Head(task_chan))
    /\ UNCHANGED <<submitted, queue_proof, outputs, db, lookup, done_log>>

\* mutant: the Err arm stores an empty output for the task
QueueProveTask_stores_error ==
    /\ queue_pc = "proving"
    /\ \E r \in prove_task_results(queue_task) :
           /\ active' = active - 1
           /\ queue_pc' = CASE r.kind = "ok" -> "store"
                             [] r.kind = "err" -> "recv"
                             [] OTHER -> "panicked"
           /\ outputs' = IF r.kind \in {"ok", "err"}
                         THEN insert(outputs, queue_task.key, r.bytes)
                         ELSE outputs
           /\ queue_proof' = r.bytes
           /\ queue_task' = IF r.kind = "ok" THEN queue_task ELSE NoTask
           /\ done_log' = IF r.kind = "err"
                          THEN Append(done_log, Iteration(queue_task, FALSE, <<>>, FALSE))
                          ELSE done_log
    /\ UNCHANGED <<task_chan, submitted, db, lookup, started_log>>

\* ProvingQueue::run: prove_task returns; Ok(bytes) is stored in memory, Err is
\* logged, a panic ends the task the loop runs in
QueueProveTask ==
    /\ queue_pc = "proving"
    /\ \E r \in prove_task_results(queue_task) :
           /\ active' = active - 1
           /\ queue_pc' = CASE r.kind = "ok" -> "store"
                             [] r.kind = "err" -> "recv"
                             [] OTHER -> "panicked"
           /\ outputs' = IF r.kind = "ok"
                         THEN insert(outputs, queue_task.key, r.bytes)
                         ELSE outputs
           /\ queue_proof' = r.bytes
           /\ queue_task' = IF r.kind = "ok" THEN queue_task ELSE NoTask
           /\ done_log' = IF r.kind = "err"
                          THEN Append(done_log, Iteration(queue_task, FALSE, <<>>, FALSE))
                          ELSE done_log
    /\ UNCHANGED <<task_chan, submitted, db, lookup, started_log>>

\* mutant: the error of store_proof_in_db is propagated with `?` and ends the loop
QueueStoreDb_propagates ==
    /\ queue_pc = "store"
    /\ \E stored \in BOOLEAN :
           /\ db' = IF stored THEN upsert(db, queue_task.key, queue_proof) ELSE db
           /\ done_log' = Append(done_log,
                                 Iteration(queue_task, TRUE, queue_proof, stored))
           /\ queue_pc' = IF stored THEN "recv" ELSE "panicked"
    /\ queue_task' = NoTask
    /\ queue_proof' = <<>>
    /\ UNCHANGED <<task_chan, submitted, outputs, lookup, active, started_log>>

\* mutant: the proof is written only when the table has no row for the key
QueueStoreDb_keeps_first ==
    /\ queue_pc = "store"
    /\ \E stored \in BOOLEAN :
           /\ db' = IF stored /\ queue_task.key \notin DOMAIN db
                    THEN upsert(db, queue_task.key, queue_proof) ELSE db
           /\ done_log' = Append(done_log,
                                 Iteration(queue_task, TRUE, queue_proof, stored))
    /\ queue_pc' = "recv"
    /\ queue_task' = NoTask
    /\ queue_proof' = <<>>
    /\ UNCHANGED <<task_chan, submitted, outputs, lookup, active, started_log>>

\* ProvingQueue::run: store_proof_in_db succeeds or fails, and the loop goes on
QueueStoreDb ==
    /\ queue_pc = "store"
    /\ \E stored \in BOOLEAN :
           /\ db' = IF stored THEN upsert(db, queue_task.key, queue_proof) ELSE db
           /\ done_log' = Append(done_log,
                                 Iteration(queue_task, TRUE, queue_proof, stored))
    /\ queue_pc' = "recv"
    /\ queue_task' = NoTask
    /\ queue_proof' = <<>>
    /\ UNCHANGED <<task_chan, submitted, outputs, lookup, active, started_log>>

\* GrpcService::get_proving_result up to the database query: the key is removed
\* from the memory table; calls are numbered in the order they get there
GetProvingResultMemory(c, key) ==
    /\ lookup[c].pc = "idle"
    /\ IF c = 1 THEN TRUE ELSE lookup[c - 1].pc # "idle"
    /\ \E r \in {outputs_remove(outputs, key)} :
           /\ outputs' = r.map
           /\ lookup' = [lookup EXCEPT ![c] =
                  IF r.hit
                  THEN Lookup("done", key, "memory", r.bytes)
                  ELSE Lookup("db", key, "none", <<>>)]
    /\ UNCHANGED <<task_chan, submitted, queue_pc, queue_task, queue_proof, db,
                   active, started_log, done_log>>

\* GrpcService::get_proving_result, the database query and the response
GetProvingResultDb(c) ==
    /\ lookup[c].pc = "db"
    /\ \E read_ok \in BOOLEAN :
       \E row \in {select_proof(db, lookup[c].key)} :
           lookup' = [lookup EXCEPT ![c] =
               IF ~read_ok
               THEN Lookup("done", lookup[c].key, "error", <<>>)
               ELSE IF row.found
               THEN Lookup("done", lookup[c].key, "durable", row.bytes)
               ELSE Lookup("done", lookup[c].key, "none", <<>>)]
    /\ UNCHANGED <<task_chan, submitted, queue_pc, queue_task, queue_proof, outputs,
                   db, active, started_log, done_log>>

Init == TreeInit /\ HandlerInit /\ RunInit /\ QueueInit

Next ==
    \/ EmulatorSendChunk
    \/ EmulatorSendComplete
    \/ GatewayRecvEmulator
    \/ GatewayRecvWorker
    \/ \E w \in Workers : ProverStart(w)
    \/ \E w \in Workers : ProverRecv(w)
    \/ \E w \in Workers : ProverRun(w)
    \/ TaskReturn

Spec == Init /\ [][Next]_vars

\* every thread that can take a step eventually takes one
Fairness ==
    /\ WF_vars(EmulatorSendChunk \/ EmulatorSendComplete)
    /\ WF_vars(GatewayRecvEmulator \/ GatewayRecvWorker)
    /\ \A w \in 1..MaxWorkers :
           WF_vars(w \in Workers /\ (ProverStart(w) \/ ProverRecv(w) \/ ProverRun(w)))
    /\ WF_vars(TaskReturn)

FairSpec == Spec /\ Fairness

\* a run in which a stage function may panic in a prover
FaultNext ==
    \/ Next
    \/ \E w \in Workers : ProverStageFails(w)

FaultSpec == Init /\ [][FaultNext]_vars

\* gateway::run with channels whose other side may go away
ClosureNext ==
    \/ FaultNext
    \/ CloseEmulatorChannel
    \/ CloseWorkerChannel
    \/ GatewayRecvClosed

ClosureSpec == Init /\ [][ClosureNext]_vars

\* a run followed to the end of its threads: while the gateway's side of the
\* worker channel is there the threads step as in Next, afterwards the provers
\* that are left see the closed channel
ShutdownNext ==
    \/ ~gateway_side_closed /\ Next
    \/ \E w \in Workers : ProverAfterClosure(w)

\* every thread that can take a step eventually takes one; the two timeouts
\* of prove_task bound its waits
ShutdownFairness ==
    /\ WF_vars(~gateway_side_closed /\ (EmulatorSendChunk \/ EmulatorSendComplete))
    /\ WF_vars(~gateway_side_closed /\ (GatewayRecvEmulator \/ GatewayRecvWorker))
    /\ \A w \in 1..MaxWorkers :
           WF_vars(/\ w \in Workers
                   /\ \/ ~gateway_side_closed
                            /\ (ProverStart(w) \/ ProverRecv(w) \/ ProverRun(w))
                      \/ ProverAfterClosure(w))
    /\ WF_vars(TaskReturn)

ShutdownSpec == Init /\ [][ShutdownNext]_vars /\ ShutdownFairness

\* the standalone tree: the run's variables stay as prove_task finds them
\* the run's variables as prove_task finds them, with one fixed input
RunIdle ==
    /\ RunInit
    /\ num_chunks = 1
    /\ prover_count = 1
    /\ verify_may_fail = FALSE

TreeHarnessInit ==
    /\ TreeInit
    /\ HandlerInit
    /\ QueueInit
    /\ RunInit
    /\ num_chunks = 1
    /\ prover_count = 1
    /\ verify_may_fail = FALSE

TreeNext ==
    \/ \E i \in 0..MaxIndex : TreeInitNode(i) /\ UNCHANGED <<handler_vars, run_vars, queue_vars, task_vars>>
    \/ \E i \in 0..MaxIndex : TreeSetProof(i) /\ UNCHANGED <<handler_vars, run_vars, queue_vars, task_vars>>

TreeSpec == TreeHarnessInit /\ [][TreeNext]_vars

HandlerHarnessInit == TreeInit /\ HandlerInit /\ RunIdle /\ QueueInit

HandlerNext ==
    \E msg \in HandlerMsgs(handler) :
        HandlerProcess(msg) /\ UNCHANGED <<tree_vars, run_vars, queue_vars, task_vars>>

HandlerSpec == HandlerHarnessInit /\ [][HandlerNext]_vars

\* the standalone handler with both of its entry points
RegisterNext ==
    \/ HandlerNext
    \/ \E i \in 0..MaxHandlerIndex :
           HandlerProcessRiscvReq(RiscvRequest(i))
               /\ UNCHANGED <<tree_vars, run_vars, queue_vars, task_vars>>

RegisterSpec == HandlerHarnessInit /\ [][RegisterNext]_vars

\* the service, with the pipeline run inside prove_task seen from outside
QueueHarnessInit == TreeInit /\ HandlerInit /\ RunIdle /\ QueueInit

QueueNext ==
    \/ \E key \in Keys : \E use_gpu \in BOOLEAN :
           GrpcProveTask(key, use_gpu) /\ UNCHANGED <<tree_vars, handler_vars, run_vars, task_vars>>
    \/ QueueRecv /\ UNCHANGED <<tree_vars, handler_vars, run_vars, task_vars>>
    \/ QueueProveTask /\ UNCHANGED <<tree_vars, handler_vars, run_vars, task_vars>>
    \/ QueueStoreDb /\ UNCHANGED <<tree_vars, handler_vars, run_vars, task_vars>>
    \/ \E c \in 1..MaxLookups : \E key \in Keys :
           GetProvingResultMemory(c, key) /\ UNCHANGED <<tree_vars, handler_vars, run_vars, task_vars>>
    \/ \E c \in 1..MaxLookups :
           GetProvingResultDb(c) /\ UNCHANGED <<tree_vars, handler_vars, run_vars, task_vars>>

QueueSpec == QueueHarnessInit /\ [][QueueNext]_vars

(***************************************************************************)
(* Properties                                                              *)
(***************************************************************************)
Range(q) == {q[k] : k \in 1..Len(q)}

published == completion # <<>>

\* the merge requests emitted so far that carry flag_complete = true
FlagCompleteRequests == {k \in 1..Len(merge_log) : merge_log[k].flag_complete}

\* every message that is in a channel or being executed by a prover
InFlight ==
    Range(emulator_chan) \cup Range(to_workers) \cup Range(to_gateway)
        \cup {prover[w].msg : w \in Workers}

\* C1: in a run with N >= 2 chunks, the proof the gateway stores as the final
\* proof, and the bytes it publishes from it, cover the range [0, N-1].
C1_FinalProofCoversAllChunks ==
    num_chunks >= 2 =>
        /\ gateway_handler.embed_proof # <<>> =>
               gateway_handler.embed_proof[1] = <<0, num_chunks - 1>>
        /\ (published /\ completion[1] # <<>>) =>
               completion[1] = render(<<0, num_chunks - 1>>)

\* C2: under fair scheduling, with no stage failure, a run with N >= 2 chunks
\* eventually publishes the completion signal, whatever the order of
\* completions.
C2_MergeProgress == (num_chunks >= 2 /\ ~verify_may_fail) ~> published

C2_Witness ==
    /\ num_chunks >= 3
    /\ ~verify_may_fail
    /\ published
    /\ Len(merge_log) = num_chunks - 1
    /\ \E k \in 1..Len(merge_log) : merge_log[k].chunk_index = 0

\* C3: over a whole run exactly one merge request carries flag_complete = true:
\* never more than one is emitted, and a run that has published emitted one.
C3_ExactlyOneFlagComplete ==
    /\ Cardinality(FlagCompleteRequests) <= 1
    /\ published => Cardinality(FlagCompleteRequests) = 1

\* C4: no reachable ProofTree has two neighbouring live slots (consecutive in
\* index order) that are both Proved.
C4_NoAdjacentProved ==
    \A i \in DOMAIN tree : \A j \in next_slot(tree, i) :
        ~(is_proved(tree[i]) /\ is_proved(tree[j]))

C4_Witness ==
    /\ t_merges >= 1
    /\ len(tree) >= 3
    /\ \E i \in DOMAIN tree : is_proved(tree[i]) /\ next_slot(tree, i) # {}
    /\ \E i \in DOMAIN tree : is_proved(tree[i]) /\ prev_slot(tree, i) # {}

\* C5: over N single-chunk inputs the tree length is N minus the number of
\* set_proof calls that returned a pair, so len() = 1 is reached after exactly
\* N-1 merges, never after fewer and never needing more.
C5_MergesToRoot ==
    /\ len(tree) = Cardinality(t_inits) - t_merges
    /\ t_inits # {} => t_merges <= Cardinality(t_inits) - 1
    /\ t_inits # {} => (len(tree) = 1 <=> t_merges = Cardinality(t_inits) - 1)

C5_Witness ==
    /\ Cardinality(t_inits) = MaxIndex + 1
    /\ len(tree) = 1
    /\ t_merges = MaxIndex

\* both the nearest slot before index and the nearest slot after it are Proved
both_proved(t, index) ==
    /\ \E j \in prev_slot(t, index) : is_proved(t[j])
    /\ \E j \in next_slot(t, index) : is_proved(t[j])

\* C6: when set_proof(index, proof) is called with both nearest neighbours
\* Proved, it returns [left proof, current proof], removes the left slot and
\* leaves the right slot Proved and in place.
C6_LeftPreference ==
    [][\A i \in DOMAIN tree :
          (t_call'.op = "set_proof" /\ t_call'.index = i /\ both_proved(tree, i)) =>
              \A l \in prev_slot(tree, i) : \A r \in next_slot(tree, i) :
                  /\ t_call'.ret = <<tree[l].proofs[1], t_call'.proof>>
                  /\ l \notin DOMAIN tree'
                  /\ r \in DOMAIN tree'
                  /\ tree'[r] = tree[r]
                  /\ is_proved(tree'[r])]_vars

C6_Witness ==
    /\ t_call.op = "set_proof"
    /\ Len(t_call.ret) = 2
    /\ t_call.ret[2] = t_call.proof
    /\ t_call.index \in DOMAIN tree
    /\ \E r \in next_slot(tree, t_call.index) : is_proved(tree[r])

\* C7: the flag_complete of every merge request the handler emits is true if
\* and only if the tree has exactly one live slot once the sibling is removed.
C7_FlagIffLenOne ==
    [][Len(merge_log') > Len(merge_log) =>
          (merge_log'[Len(merge_log')].flag_complete
              <=> len(gateway_handler'.proof_tree) = 1)]_vars

C7_Witness ==
    /\ \E k \in 1..Len(merge_log) : merge_log[k].flag_complete
    /\ \E k \in 1..Len(merge_log) : ~merge_log[k].flag_complete
    /\ len(gateway_handler.proof_tree) = 1

\* C8: a chunk-proved or merge-proved message for index i reaches the handler
\* only after init_node(i) was applied: set_proof never addresses a slot that
\* was not registered.
C8_InitBeforeProof ==
    /\ \A m \in InFlight :
           m.tag \in {"RiscvResponse", "CombineResponse", "CombineRequest"} =>
               m.chunk_index \in Range(applied_log)
    /\ \A m \in Range(to_workers) \cup {prover[w].msg : w \in Workers} :
           m.tag = "RiscvRequest" => m.chunk_index \in Range(applied_log)
    /\ gateway_pc # "panicked"

C8_Witness ==
    /\ \E m \in Range(to_gateway) : m.tag = "RiscvResponse"
    /\ \E m \in Range(to_gateway) : m.tag = "CombineResponse"
    /\ emulator_chan # <<>>

\* C9: every pair the gateway emits is in ascending range order and adjacent,
\* so the adjacency assertion of combine never fires.
C9_PairsAdjacent ==
    /\ \A k \in 1..Len(merge_log) :
           /\ Len(merge_log[k].proofs) = 2
           /\ merge_log[k].proofs[1].end_chunk + 1 = merge_log[k].proofs[2].start_chunk
           /\ merge_log[k].proofs[1].start_chunk <= merge_log[k].proofs[1].end_chunk
           /\ merge_log[k].proofs[2].start_chunk <= merge_log[k].proofs[2].end_chunk
    /\ \A w \in Workers : prover[w].pc # "panicked"

C9_Witness ==
    /\ \E k \in 1..Len(merge_log) :
           /\ merge_log[k].proofs[1].start_chunk = merge_log[k].proofs[1].end_chunk
           /\ merge_log[k].proofs[2].start_chunk < merge_log[k].proofs[2].end_chunk
    /\ \A w \in Workers : prover[w].pc \in {"recv", "exited"}
    /\ published

\* C10: a single-chunk run still completes: it does not come to rest before a
\* final proof is published.
C10_SingleChunkCompletes ==
    (num_chunks = 1 /\ ~ENABLED Next) => published

\* the messages appended to the workers -> gateway channel by this step
sent_to_gateway == SubSeq(to_gateway', Len(to_gateway) + 1, Len(to_gateway'))

\* prover w ends the arm of a merge request in this step
ends_merge_arm(w) ==
    /\ prover[w].pc = "busy"
    /\ prover'[w].pc # "busy"
    /\ prover[w].msg.tag = "CombineRequest"

\* the messages are exactly the merge-proved reply for req and a task request
is_merge_reply(msgs, req) ==
    /\ Len(msgs) = 2
    /\ msgs[1].tag = "CombineResponse"
    /\ msgs[1].chunk_index = req.chunk_index
    /\ msgs[1].proof.start_chunk = req.proofs[1].start_chunk
    /\ msgs[1].proof.end_chunk = req.proofs[2].end_chunk
    /\ msgs[1].proof.inner = <<req.proofs[1].inner[1], req.proofs[2].inner[2]>>
    /\ msgs[2] = RequestTask

\* C11: a worker that ends a merge with flag_complete = true and a successful
\* verification sends the final proof, then Exit, and stops for good (no
\* merge-proved reply, no task request); a worker that ends a merge with
\* flag_complete = false sends the merge-proved reply and its next task request.
C11_WorkerFastPath ==
    [][/\ \A w \in Workers :
              ends_merge_arm(w) =>
                  /\ (prover[w].msg.flag_complete /\ prover'[w].verified = "ok") =>
                         /\ Len(sent_to_gateway) = 2
                         /\ sent_to_gateway[1].tag = "Embed"
                         /\ sent_to_gateway[1].proof =
                                <<prover[w].msg.proofs[1].inner[1],
                                  prover[w].msg.proofs[2].inner[2]>>
                         /\ sent_to_gateway[2] = Exit
                         /\ prover'[w].pc = "exited"
                  /\ ~prover[w].msg.flag_complete =>
                         /\ is_merge_reply(sent_to_gateway, prover[w].msg)
                         /\ prover'[w].pc = "recv"
       /\ \A w \in Workers : prover[w].pc = "exited" => prover'[w] = prover[w]
       /\ Len(to_gateway') > Len(to_gateway) =>
              \E w \in Workers : prover[w].pc \in {"start", "busy"}
                                    /\ prover'[w] # prover[w]]_vars

C11_Witness ==
    /\ \E w \in Workers : prover[w].pc = "exited" /\ prover[w].verified = "ok"
    /\ \E k \in 1..Len(merge_log) : ~merge_log[k].flag_complete
    /\ Len(to_gateway) >= 2
    /\ to_gateway[Len(to_gateway)] = Exit
    /\ to_gateway[Len(to_gateway) - 1].tag = "Embed"

\* C20: a worker that ends a merge with flag_complete = true whose verification
\* failed sends exactly the merge-proved reply for that merge (no final proof,
\* no Exit), stays in its loop and requests its next task.
C20_VerifyFailureFallsBack ==
    [][\A w \in Workers :
          (ends_merge_arm(w) /\ prover[w].msg.flag_complete
                             /\ prover'[w].verified = "failed") =>
              /\ is_merge_reply(sent_to_gateway, prover[w].msg)
              /\ prover'[w].pc = "recv"]_vars

C20_Witness ==
    /\ \E w \in Workers : prover[w].pc = "recv" /\ prover[w].verified = "failed"
    /\ \E k \in 1..Len(to_gateway) :
           /\ to_gateway[k].tag = "CombineResponse"
           /\ k < Len(to_gateway)
           /\ to_gateway[k + 1] = RequestTask
    /\ \A m \in Range(to_gateway) : m.tag \notin {"Embed", "Exit"}

\* the live slots next to index, with no live slot in between
nearest_before(t, index) ==
    {j \in DOMAIN t : j < index /\ ~\E k \in DOMAIN t : j < k /\ k < index}

nearest_after(t, index) ==
    {j \in DOMAIN t : j > index /\ ~\E k \in DOMAIN t : index < k /\ k < j}

left_proved(t, index) == \E j \in nearest_before(t, index) : t[j].kind = "Proved"

right_proved(t, index) == \E j \in nearest_after(t, index) : t[j].kind = "Proved"

\* this step is the call set_proof(i, t_call'.proof) on `tree`
is_set_proof(i) == t_call'.op = "set_proof" /\ t_call'.index = i

\* C15: set_proof(index, proof) pairs with the nearest slot after index only
\* when the nearest slot before index is absent or not Proved; it then returns
\* [current proof, right proof] and removes the right slot.  Only the nearest
\* slot on each side is looked at: the removed slot and the paired proof are
\* those of a nearest neighbour, never of a Proved slot further away.
C15_RightFallback ==
    [][\A i \in DOMAIN tree :
          is_set_proof(i) =>
              /\ (~left_proved(tree, i) /\ right_proved(tree, i)) =>
                     \A r \in nearest_after(tree, i) :
                         /\ t_call'.ret = <<t_call'.proof, tree[r].proofs[1]>>
                         /\ DOMAIN tree' = DOMAIN tree \ {r}
              /\ (t_call'.ret # <<>> /\ t_call'.ret[1] = t_call'.proof) =>
                     (~left_proved(tree, i) /\ right_proved(tree, i))
              /\ DOMAIN tree \ DOMAIN tree' \subseteq
                     nearest_before(tree, i) \cup nearest_after(tree, i)
              /\ t_call'.ret # <<>> =>
                     \/ \E l \in nearest_before(tree, i) :
                            /\ tree[l].kind = "Proved"
                            /\ t_call'.ret = <<tree[l].proofs[1], t_call'.proof>>
                     \/ \E r \in nearest_after(tree, i) :
                            /\ tree[r].kind = "Proved"
                            /\ t_call'.ret = <<t_call'.proof, tree[r].proofs[1]>>]_vars

C15_Witness ==
    /\ t_call.op = "set_proof"
    /\ Len(t_call.ret) = 2
    /\ t_call.ret[1] = t_call.proof
    /\ \E l \in nearest_before(tree, t_call.index) : tree[l].kind = "InProgress"
    /\ \E j \in DOMAIN tree : j < t_call.index /\ tree[j].kind = "Proved"

\* C16: when neither the nearest slot before index nor the nearest slot after
\* index is Proved, set_proof(index, proof) returns nothing, turns slot index
\* into Proved holding that proof, and leaves every other slot and the tree
\* length unchanged.
C16_NoNeighbourStoresProved ==
    [][\A i \in DOMAIN tree :
          (is_set_proof(i) /\ ~left_proved(tree, i) /\ ~right_proved(tree, i)) =>
              /\ t_call'.ret = <<>>
              /\ DOMAIN tree' = DOMAIN tree
              /\ tree'[i] = [kind |-> "Proved", proofs |-> <<t_call'.proof>>]
              /\ \A j \in DOMAIN tree \ {i} : tree'[j] = tree[j]
              /\ Cardinality(DOMAIN tree') = Cardinality(DOMAIN tree)]_vars

C16_Witness ==
    /\ t_call.op = "set_proof"
    /\ t_call.ret = <<>>
    /\ t_call.index \in DOMAIN tree
    /\ tree[t_call.index] = [kind |-> "Proved", proofs |-> <<t_call.proof>>]
    /\ \E j \in DOMAIN tree : j < t_call.index /\ tree[j].kind = "Proved"
    /\ \E j \in nearest_after(tree, t_call.index) : tree[j].kind = "InProgress"

\* the proofs and the trees of the scenario of slots {0,1,2} proved in the
\* order 1, 2, 0
chunk_proof(i) == [inner |-> <<i, i>>, start_chunk |-> i, end_chunk |-> i]

combined_1_2 == [inner |-> <<1, 2>>, start_chunk |-> 1, end_chunk |-> 2]

awaiting == [kind |-> "InProgress", proofs |-> <<>>]

holding(proof) == [kind |-> "Proved", proofs |-> <<proof>>]

merging(a, b) == [kind |-> "InProgress", proofs |-> <<a, b>>]

tree_registered == [j \in {0, 1, 2} |-> awaiting]

tree_after_1 == [j \in {0, 1, 2} |-> IF j = 1 THEN holding(chunk_proof(1)) ELSE awaiting]

tree_after_1_2 ==
    [j \in {0, 2} |-> IF j = 2 THEN merging(chunk_proof(1), chunk_proof(2)) ELSE awaiting]

tree_after_1_2_0 ==
    [j \in {0, 2} |-> IF j = 2 THEN merging(chunk_proof(1), chunk_proof(2))
                      ELSE holding(chunk_proof(0))]

tree_root == [j \in {2} |-> merging(chunk_proof(0), combined_1_2)]

\* C17: with slots {0,1,2} all registered and proofs arriving in the order
\* 1, 2, 0: set_proof(1,p1) returns nothing; set_proof(2,p2) returns [p1,p2],
\* removes slot 1 and leaves length 2 with the pending merge at slot 2;
\* set_proof(0,p0) returns nothing; set_proof(2, combined(p1,p2)) returns
\* [p0, combined(p1,p2)] and the length becomes 1.
C17_Order_1_2_0 ==
    [][/\ (tree = tree_registered /\ is_set_proof(1)
                                  /\ t_call'.proof = chunk_proof(1)) =>
              /\ t_call'.ret = <<>>
              /\ tree' = tree_after_1
       /\ (tree = tree_after_1 /\ is_set_proof(2)
                               /\ t_call'.proof = chunk_proof(2)) =>
              /\ t_call'.ret = <<chunk_proof(1), chunk_proof(2)>>
              /\ 1 \notin DOMAIN tree'
              /\ Cardinality(DOMAIN tree') = 2
              /\ tree' = tree_after_1_2
       /\ (tree = tree_after_1_2 /\ is_set_proof(0)
                                 /\ t_call'.proof = chunk_proof(0)) =>
              /\ t_call'.ret = <<>>
              /\ tree' = tree_after_1_2_0
       /\ (tree = tree_after_1_2_0 /\ is_set_proof(2)
                                   /\ t_call'.proof = combined_1_2) =>
              /\ t_call'.ret = <<chunk_proof(0), combined_1_2>>
              /\ Cardinality(DOMAIN tree') = 1
              /\ tree' = tree_root]_vars

C17_Witness ==
    /\ tree = tree_root
    /\ t_inits = {0, 1, 2}
    /\ t_merges = 2
    /\ t_call.op = "set_proof"
    /\ t_call.index = 2
    /\ t_call.proof = combined_1_2
    /\ t_call.ret = <<chunk_proof(0), combined_1_2>>

\* C18: a process call made while complete() is already true returns Exit
\* without applying the message: the ProofTree, the producer-complete flag and
\* the stored final proof are left unchanged, whatever the message is.
C18_ExitBeforeProcessing ==
    [][complete(handler) =>
          /\ h_call'.ok
          /\ h_call'.out = Exit
          /\ handler' = handler]_vars

\* C19: the gateway publishes the completion signal at most once and only with
\* a final proof stored in the handler; once it has published, its loop is
\* over: the handler does not change, no message is taken from either channel
\* and nothing more is sent to the workers.
C19_PublishOnceThenStop ==
    /\ [](published => (Len(completion) = 1 /\ gateway_handler.embed_proof # <<>>
                                            /\ gateway_pc = "exited"))
    /\ [][published =>
              /\ completion' = completion
              /\ gateway_handler' = gateway_handler
              /\ gateway_pc' = gateway_pc
              /\ Len(emulator_chan') >= Len(emulator_chan)
              /\ Len(to_gateway') >= Len(to_gateway)
              /\ Len(to_workers') <= Len(to_workers)
              /\ merge_log' = merge_log]_vars

C19_Witness ==
    /\ published
    /\ to_gateway # <<>>
    /\ Head(to_gateway) = Exit
    /\ to_workers # <<>>
    /\ emulator_pc = "done"
    /\ emulator_chan # <<>>

\* C12: one queue instance runs at most one pipeline at any time; tasks are
\* started in the order they were submitted; a task is dequeued only when the
\* iteration of every task started before has ended (prove_task returned Ok or
\* Err); every task submitted and not yet started waits in the channel, in
\* submission order, also when it was submitted during a run.
C12_OnePipelineAtATime ==
    /\ [](/\ active <= 1
          /\ \A i \in 1..Len(started_log) : started_log[i].inputs = i
          /\ Len(task_chan) = submitted - Len(started_log)
          /\ \A i \in 1..Len(task_chan) : task_chan[i].inputs = Len(started_log) + i)
    /\ [][Len(started_log') > Len(started_log) =>
              /\ active = 0
              /\ Len(done_log) = Len(started_log)
              /\ started_log' = Append(started_log, Head(task_chan))]_vars
    /\ [][(active = 1 /\ submitted' = submitted + 1) =>
              /\ task_chan' = Append(task_chan, task_chan'[Len(task_chan')])
              /\ started_log' = started_log
              /\ active' = 1]_vars

C12_Witness ==
    /\ Len(started_log) = 2
    /\ Len(done_log) = 1
    /\ done_log[1].task = started_log[1]
    /\ active = 1
    /\ queue_pc = "proving"

\* every task submitted so far
submitted_tasks == Range(started_log) \cup Range(task_chan)

\* the queue iterations ended so far for key that stored a proof in memory
ended_ok(key) == {i \in 1..Len(done_log) : done_log[i].ok /\ done_log[i].task.key = key}

\* one task was submitted for key, prove_task returned Ok for it and its
\* iteration of the queue loop has ended
completed_once(key) ==
    /\ Cardinality({t \in submitted_tasks : t.key = key}) = 1
    /\ ended_ok(key) # {}

\* the ended iteration of the task of a key that completed once
run_of(key) == done_log[CHOOSE i \in ended_ok(key) : TRUE]

\* the calls other than c that have looked key up in memory already
earlier_lookups(c, key) ==
    {d \in (1..MaxLookups) \ {c} : lookup[d].pc # "idle" /\ lookup[d].key = key}

\* call c does its memory step / its database step in this step
memory_step(c) == lookup[c].pc = "idle" /\ lookup'[c].pc # "idle"

database_step(c) == lookup[c].pc = "db" /\ lookup'[c].pc = "done"

\* a memory hit returns the bytes and removes the entry; a miss goes on to the
\* durable store
memory_first(c) ==
    memory_step(c) =>
        /\ db' = db
        /\ lookup'[c].key \in DOMAIN outputs =>
               /\ lookup'[c].pc = "done"
               /\ lookup'[c].tier = "memory"
               /\ lookup'[c].bytes = outputs[lookup'[c].key]
               /\ DOMAIN outputs' = DOMAIN outputs \ {lookup'[c].key}
        /\ lookup'[c].key \notin DOMAIN outputs =>
               /\ lookup'[c].pc = "db"
               /\ outputs' = outputs

\* a memory miss returns the bytes of the durable store, if any, and leaves
\* the store unchanged
durable_read(c) ==
    /\ db' = db
    /\ outputs' = outputs
    /\ lookup[c].key \in DOMAIN db =>
           (lookup'[c].tier = "durable" /\ lookup'[c].bytes = db[lookup[c].key])
    /\ lookup[c].key \notin DOMAIN db =>
           (lookup'[c].tier = "none" /\ lookup'[c].bytes = <<>>)

\* after the task of a key completed, the first lookup is served from memory
\* and empties it
first_from_memory(c) ==
    (memory_step(c) /\ completed_once(lookup'[c].key)
                    /\ earlier_lookups(c, lookup'[c].key) = {}) =>
        /\ lookup'[c].tier = "memory"
        /\ lookup'[c].bytes = run_of(lookup'[c].key).bytes
        /\ lookup'[c].key \notin DOMAIN outputs'

\* call c is the second lookup of a key whose task completed: the only earlier
\* one was served from memory
is_second(c, key) ==
    /\ completed_once(key)
    /\ Cardinality(earlier_lookups(c, key)) = 1
    /\ \A d \in earlier_lookups(c, key) :
           lookup[d].tier = "memory" /\ lookup[d].bytes = run_of(key).bytes

\* call c gets a response from the database in this step (a failed query makes
\* the call fail with an internal error instead)
database_answer(c) == database_step(c) /\ lookup'[c].tier # "error"

\* C13 as stated: memory is consulted first, a hit returns the bytes and
\* removes the entry, a miss returns the durable-store bytes, if any, and leaves
\* the durable store unchanged; so after a task completed successfully the
\* first lookup is served from memory and empties it, and a second lookup
\* returns the same bytes from the durable tier.
C13_LookupTiers ==
    [][\A c \in 1..MaxLookups :
          /\ memory_first(c)
          /\ database_step(c) => (db' = db /\ outputs' = outputs)
          /\ database_answer(c) => durable_read(c)
          /\ first_from_memory(c)
          /\ (memory_step(c) /\ is_second(c, lookup'[c].key)) => lookup'[c].pc = "db"
          /\ (database_answer(c) /\ is_second(c, lookup[c].key)) =>
                 /\ lookup'[c].tier = "durable"
                 /\ lookup'[c].bytes = run_of(lookup[c].key).bytes]_vars

\* C13 amended: the same, with the second lookup returning the bytes from the
\* durable tier when the durable write of the run succeeded.
C13_LookupTiersWhenStored ==
    [][\A c \in 1..MaxLookups :
          /\ memory_first(c)
          /\ database_step(c) => (db' = db /\ outputs' = outputs)
          /\ database_answer(c) => durable_read(c)
          /\ first_from_memory(c)
          /\ (memory_step(c) /\ is_second(c, lookup'[c].key)) => lookup'[c].pc = "db"
          /\ (database_answer(c) /\ is_second(c, lookup[c].key)
                                 /\ run_of(lookup[c].key).stored) =>
                 /\ lookup'[c].tier = "durable"
                 /\ lookup'[c].bytes = run_of(lookup[c].key).bytes
          /\ (database_answer(c) /\ is_second(c, lookup[c].key)
                                 /\ ~run_of(lookup[c].key).stored) =>
                 /\ lookup'[c].tier = "none"
                 /\ lookup'[c].bytes = <<>>]_vars

C13_Witness ==
    \E k \in Keys :
        /\ completed_once(k)
        /\ run_of(k).stored
        /\ run_of(k).bytes # <<>>
        /\ lookup[1] = Lookup("done", k, "memory", run_of(k).bytes)
        /\ lookup[2] = Lookup("done", k, "durable", run_of(k).bytes)
        /\ k \notin DOMAIN outputs
        /\ db[k] = run_of(k).bytes

\* the number of proofs stored in the memory table for key so far
memory_inserts(key) ==
    Cardinality(ended_ok(key))
        + (IF queue_pc = "store" /\ queue_task.key = key THEN 1 ELSE 0)

\* the lookups of key that were served from the memory table
memory_hits(key) ==
    Cardinality({c \in 1..MaxLookups : lookup[c].key = key /\ lookup[c].tier = "memory"})

\* C14: however lookups of one identity interleave with each other and with
\* the queue's insert, at most one lookup per completed run is served from the
\* memory tier.
C14_MemoryServedOnce ==
    \A k \in Keys : memory_hits(k) <= memory_inserts(k)

C14_Witness ==
    \E k \in Keys :
        /\ memory_inserts(k) = 1
        /\ memory_hits(k) = 1
        /\ queue_pc = "store"
        /\ \A c \in 1..MaxLookups : lookup[c].key = k /\ lookup[c].pc = "done"
        /\ lookup[1].tier = "none"
        /\ lookup[2].tier = "memory"

\* C21: when a prover thread has ended on a stage execution error while holding
\* a work item, the pipeline run does not wait forever: once no thread of the
\* run can take a step, prove_task has returned (so that the queue can dequeue
\* the next task).  Stated for runs that complete when no stage fails.
C21_StageFailureSurfaced ==
    (/\ num_chunks >= 2
     /\ ~verify_may_fail
     /\ \E w \in Workers : prover[w].pc = "failed" /\ prover[w].msg # NoMsg
     /\ ~ENABLED FaultNext) => task_pc = "returned"

ends_iteration == Len(done_log') = Len(done_log) + 1

ended_iteration == done_log'[Len(done_log')]

\* C23: when prove_task returns Ok, the bytes are inserted into the memory table
\* under the task's key in that step, before the durable write is attempted
\* (the durable store changes only in the later write step); when the durable
\* write fails, the memory table and the durable store are left as they are,
\* the iteration still counts as a success, and the loop is back at its recv,
\* where it takes the next task as soon as one is there.
C23_MemoryBeforeDurable ==
    /\ [][(queue_pc = "proving" /\ queue_pc' = "store") =>
              /\ queue_task.key \in DOMAIN outputs'
              /\ outputs'[queue_task.key] = queue_proof'
              /\ \A k \in DOMAIN outputs' \ {queue_task.key} :
                     k \in DOMAIN outputs /\ outputs'[k] = outputs[k]
              /\ db' = db]_vars
    /\ [][db' # db => (queue_pc = "store" /\ outputs' = outputs)]_vars
    /\ [][(queue_pc = "store" /\ ends_iteration /\ ~ended_iteration.stored) =>
              /\ outputs' = outputs
              /\ db' = db
              /\ ended_iteration.ok
              /\ ended_iteration.task = queue_task
              /\ queue_pc' = "recv"
              /\ task_chan' = task_chan]_vars
    /\ []((queue_pc = "recv" /\ task_chan # <<>>) => ENABLED QueueRecv)

C23_Witness ==
    /\ Len(done_log) = 1
    /\ done_log[1].ok
    /\ ~done_log[1].stored
    /\ done_log[1].bytes # <<>>
    /\ done_log[1].task.key \in DOMAIN outputs
    /\ outputs[done_log[1].task.key] = done_log[1].bytes
    /\ done_log[1].task.key \notin DOMAIN db
    /\ Len(started_log) = 2
    /\ queue_pc = "proving"

\* no run for key has returned Ok so far
never_succeeded(key) ==
    /\ ended_ok(key) = {}
    /\ ~(queue_pc = "store" /\ queue_task.key = key)

\* C24: when prove_task returns an error, that step writes nothing to the
\* memory table or the durable store and puts nothing into the task channel,
\* and the loop is back at its recv, where it takes the next task; a task is
\* never started twice; as long as no run of an identity has succeeded, neither
\* tier holds a record for it and every lookup of it finds no proof.
C24_ErrorRunWritesNothing ==
    /\ [][(queue_pc = "proving" /\ ends_iteration /\ ~ended_iteration.ok) =>
              /\ ended_iteration.task = queue_task
              /\ outputs' = outputs
              /\ db' = db
              /\ task_chan' = task_chan
              /\ started_log' = started_log
              /\ submitted' = submitted
              /\ queue_pc' = "recv"]_vars
    /\ [](/\ \A i, j \in 1..Len(started_log) : i # j => started_log[i] # started_log[j]
          /\ \A i \in 1..Len(started_log) : started_log[i] \notin Range(task_chan)
          /\ Len(started_log) + Len(task_chan) = submitted
          /\ ((queue_pc = "recv" /\ task_chan # <<>>) => ENABLED QueueRecv)
          /\ \A k \in Keys :
                 never_succeeded(k) =>
                     /\ k \notin DOMAIN outputs
                     /\ k \notin DOMAIN db
                     /\ \A c \in 1..MaxLookups :
                            (lookup[c].pc = "done" /\ lookup[c].key = k) =>
                                /\ lookup[c].tier \in {"none", "error"}
                                /\ lookup[c].bytes = <<>>)

C24_Witness ==
    /\ Len(done_log) = 1
    /\ ~done_log[1].ok
    /\ Len(started_log) = 2
    /\ started_log[2].key = done_log[1].task.key
    /\ queue_pc = "proving"
    /\ never_succeeded(done_log[1].task.key)
    /\ lookup[1] = Lookup("done", done_log[1].task.key, "none", <<>>)

\* the tasks submitted so far for key, and whether each of them has ended
submissions(key) == {t \in submitted_tasks : t.key = key}

settled(key) ==
    /\ \A t \in Range(task_chan) : t.key # key
    /\ queue_task.key # key

\* the last of a non-empty set of iterations
latest(runs) == done_log[CHOOSE i \in runs : \A j \in runs : j <= i]

\* the ended iterations for key whose durable write succeeded
stored_runs(key) == {i \in ended_ok(key) : done_log[i].stored}

\* writing the bytes a key already has leaves the store as it is
rewrite_is_noop ==
    \A k \in DOMAIN db :
        /\ upsert(db, k, db[k]) = db
        /\ \A b \in {<<>>, <<k, 1>>} : upsert(upsert(db, k, b), k, b) = upsert(db, k, b)

\* C25 as stated: once the runs of an identity submitted more than once have
\* ended, the durable store holds one record for it, with the bytes of the most
\* recently completed run; writing the same (identity, bytes) twice leaves the
\* store as after the first write.
C25_OneRecordOfLatestRun ==
    /\ \A k \in Keys :
           (Cardinality(submissions(k)) >= 2 /\ settled(k) /\ ended_ok(k) # {}) =>
               /\ k \in DOMAIN db
               /\ db[k] = latest(ended_ok(k)).bytes
    /\ rewrite_is_noop

\* C25 amended: the durable store holds at most one record for an identity: none
\* when no durable write of a run of it has succeeded, else the bytes of the
\* most recent run whose durable write succeeded; writing the same (identity,
\* bytes) twice leaves the store as after the first write.
C25_OneRecordOfLatestStoredRun ==
    /\ \A k \in Keys :
           /\ (stored_runs(k) = {}) <=> (k \notin DOMAIN db)
           /\ stored_runs(k) # {} => db[k] = latest(stored_runs(k)).bytes
    /\ DOMAIN db \subseteq Keys
    /\ rewrite_is_noop

C25_Witness ==
    \E k \in Keys :
        /\ Cardinality(submissions(k)) >= 2
        /\ settled(k)
        /\ Cardinality(stored_runs(k)) = 2
        /\ done_log[1].bytes # done_log[2].bytes
        /\ db[k] = done_log[2].bytes

\* C26: once the completion signal has fired, prove_task can return whatever
\* the provers and the gateway thread are doing, and what it returns is Ok
\* with the bytes received, whether each of the two shutdown waits ended with
\* the threads joined or with the timeout expired.
C26_TimeoutKeepsSuccess ==
    /\ (published /\ task_pc = "await" /\ emulator_pc # "sending") =>
           ENABLED TaskReturn
    /\ (published /\ task_pc = "returned") =>
           /\ task_result.kind = "ok"
           /\ task_result.bytes = completion[1]
           /\ task_result.provers \in {"joined", "timed_out"}
           /\ task_result.gateway \in {"joined", "timed_out"}
           /\ task_result.provers = "joined" => \A w \in Workers : ended(prover[w])
    /\ task_result.kind = "ok" => published

C26_Witness ==
    /\ task_pc = "returned"
    /\ task_result.kind = "ok"
    /\ task_result.bytes # <<>>
    /\ task_result.bytes = completion[1]
    /\ task_result.provers = "timed_out"
    /\ task_result.gateway = "timed_out"
    /\ \E w \in Workers : prover[w].pc = "recv"

\* no prover has produced a final proof
no_final_proof == \A w \in Workers : prover[w].verified # "ok"

\* C27: when the producer channel or the worker channel has closed and no final
\* proof was obtained, the gateway loop does not end with a panic and publishes
\* nothing: it is still draining or has left the loop on the closed channel,
\* and prove_task, if it has returned, has returned an error.
C27_ClosureEndsLoopSilently ==
    (closed # {} /\ no_final_proof) =>
        /\ gateway_pc \in {"running", "closed"}
        /\ completion = <<>>
        /\ task_pc = "returned" => task_result.kind = "err"

\* C28: a chunk-ready event on an index that already has a live slot is fatal
\* to the thread that owns the handler; on a fresh index it inserts an
\* InProgress slot without proofs and changes no other slot; in neither entry
\* point does it return a merge request.
C28_InitNodeOnceOrFatal ==
    [][h_call'.msg.tag = "RiscvRequest" =>
          /\ h_call'.out.tag # "CombineRequest"
          /\ IF h_call'.msg.chunk_index \in DOMAIN handler.proof_tree
             THEN ~h_call'.ok
             ELSE /\ h_call'.ok
                  /\ DOMAIN handler'.proof_tree =
                         DOMAIN handler.proof_tree \cup {h_call'.msg.chunk_index}
                  /\ handler'.proof_tree[h_call'.msg.chunk_index] = InProgress(<<>>)
                  /\ \A j \in DOMAIN handler.proof_tree :
                         handler'.proof_tree[j] = handler.proof_tree[j]
                  /\ handler'.emulator_complete = handler.emulator_complete
                  /\ handler'.embed_proof = handler.embed_proof]_vars

\* a duplicate chunk-ready event reached a handler that holds a proved slot
\* next to the index, and the call was fatal
C28_Witness ==
    /\ h_call.msg = RiscvRequest(0)
    /\ ~h_call.ok
    /\ 1 \in DOMAIN handler.proof_tree
    /\ handler.proof_tree[1].kind = "Proved"

\* the gateway takes the message at the head of the producer channel
takes_from_producer(tag) ==
    /\ emulator_chan # <<>>
    /\ Head(emulator_chan).tag = tag
    /\ emulator_chan' = Tail(emulator_chan)

\* the chunk indices of the chunk-ready events in a sequence of messages
chunks_of(msgs) ==
    [k \in 1..Len(SelectSeq(msgs, LAMBDA m : m.tag = "RiscvRequest")) |->
        SelectSeq(msgs, LAMBDA m : m.tag = "RiscvRequest")[k].chunk_index]

strictly_increasing(seq) ==
    \A i, j \in 1..Len(seq) : i < j => seq[i] < seq[j]

\* C29: the step in which the gateway takes a chunk-ready event from the
\* producer registers its index in the handler and appends the very same
\* message to the worker side; no other step puts a chunk-ready event there, so
\* each is forwarded exactly once; the indices are applied as 0, 1, 2, ... and
\* wait on the worker side in strictly increasing order; the step that takes
\* producer-complete sets the handler's flag and sends nothing to the workers.
C29_ChunkReadyAppliedThenForwarded ==
    /\ [](/\ applied_log = [k \in 1..Len(applied_log) |-> k - 1]
          /\ strictly_increasing(chunks_of(to_workers))
          /\ \A k \in 1..Len(to_workers) : to_workers[k] # EmulatorComplete)
    /\ [][/\ takes_from_producer("RiscvRequest") =>
                /\ Head(emulator_chan).chunk_index
                       \notin DOMAIN gateway_handler.proof_tree
                /\ Head(emulator_chan).chunk_index
                       \in DOMAIN gateway_handler'.proof_tree
                /\ applied_log' = Append(applied_log, Head(emulator_chan).chunk_index)
                /\ to_workers' = Append(to_workers, Head(emulator_chan))
          /\ Len(chunks_of(to_workers')) > Len(chunks_of(to_workers)) =>
                takes_from_producer("RiscvRequest")
          /\ takes_from_producer("EmulatorComplete") =>
                /\ gateway_handler'.emulator_complete
                /\ gateway_handler'.proof_tree = gateway_handler.proof_tree
                /\ applied_log' = applied_log
                /\ to_workers' = to_workers]_vars

\* three chunk-ready events and producer-complete were taken while no prover
\* had claimed anything: the three events wait on the worker side in order
C29_Witness ==
    /\ num_chunks = 3
    /\ applied_log = <<0, 1, 2>>
    /\ gateway_handler.emulator_complete
    /\ to_workers = <<RiscvRequest(0), RiscvRequest(1), RiscvRequest(2)>>

\* the positions of the merge requests emitted with flag_complete set
flagged_merges == {k \in 1..Len(merge_log) : merge_log[k].flag_complete}

\* merge request k carries two proofs that together cover chunks 0..num_chunks-1
covers_run(k) ==
    /\ merge_log[k].proofs[1].start_chunk = 0
    /\ merge_log[k].proofs[1].end_chunk + 1 = merge_log[k].proofs[2].start_chunk
    /\ merge_log[k].proofs[2].end_chunk = num_chunks - 1

\* C30: in a run in which no chunk proof is applied before every chunk of the
\* run is registered, at most one merge request is emitted with flag_complete
\* set, it is the last one emitted and its proofs cover chunks 0..N-1; and once
\* the run has come to rest there is exactly one such request.
C30_OneCompleteMergeLast ==
    ~early_proof =>
        /\ Cardinality(flagged_merges) <= 1
        /\ \A k \in flagged_merges : k = Len(merge_log) /\ covers_run(k)
        /\ ~ENABLED Next => Cardinality(flagged_merges) = 1

\* the gateway applies the proof at the head of the workers' channel in this
\* step and a pair comes back: a merge request is emitted
applies_proof_with_pair ==
    /\ to_gateway # <<>>
    /\ Head(to_gateway).tag \in {"RiscvResponse", "CombineResponse"}
    /\ to_gateway' = Tail(to_gateway)
    /\ Len(merge_log') = Len(merge_log) + 1

\* slot s of tree t is the Proved sibling paired with proof p at index i into
\* pair: before p when s is on the left, after p when s is on the right
paired_with(t, s, i, p, pair) ==
    /\ s # i
    /\ t[s].kind = "Proved"
    /\ IF s < i THEN pair = <<t[s].proofs[1], p>> ELSE pair = <<p, t[s].proofs[1]>>

\* C31: when applying a proof at index returns a pair, the slot at index
\* survives as InProgress with the two paired proofs, exactly the Proved
\* sibling (left or right) is removed and every other slot is untouched; the
\* merge request carries chunk_index = index, and so does the merge-proved
\* reply the worker sends for it.
C31_SurvivorIsIndex ==
    [][/\ applies_proof_with_pair =>
              \E msg \in {Head(to_gateway)} :
              \E req \in {merge_log'[Len(merge_log')]} :
                  /\ req.tag = "CombineRequest"
                  /\ req.chunk_index = msg.chunk_index
                  /\ msg.chunk_index \in DOMAIN gateway_handler'.proof_tree
                  /\ gateway_handler'.proof_tree[msg.chunk_index] =
                         InProgress(req.proofs)
                  /\ \E s \in DOMAIN gateway_handler.proof_tree :
                         /\ paired_with(gateway_handler.proof_tree, s,
                                        msg.chunk_index, msg.proof, req.proofs)
                         /\ DOMAIN gateway_handler'.proof_tree =
                                DOMAIN gateway_handler.proof_tree \ {s}
                  /\ \A j \in DOMAIN gateway_handler'.proof_tree \ {msg.chunk_index} :
                         gateway_handler'.proof_tree[j] = gateway_handler.proof_tree[j]
       /\ \A w \in Workers :
              ends_merge_arm(w) =>
                  \A k \in 1..Len(sent_to_gateway) :
                      sent_to_gateway[k].tag = "CombineResponse" =>
                          sent_to_gateway[k].chunk_index = prover[w].msg.chunk_index]_vars

\* chunk 0 was merged with its right neighbour and survived, then chunk 2 was
\* merged with the result on its left and survived; the reply of the first
\* merge came back under index 0
C31_Witness ==
    /\ num_chunks = 3
    /\ Len(merge_log) = 2
    /\ merge_log[1].chunk_index = 0
    /\ merge_log[1].proofs[2].start_chunk = 1
    /\ merge_log[2].chunk_index = 2
    /\ merge_log[2].proofs[1].start_chunk = 0
    /\ merge_log[2].proofs[1].end_chunk = 1
    /\ DOMAIN gateway_handler.proof_tree = {2}
    /\ gateway_handler.proof_tree[2].kind = "InProgress"

\* msg is a chunk request or a merge request for slot i
is_request_for(msg, i) ==
    msg.tag \in {"RiscvRequest", "CombineRequest"} /\ msg.chunk_index = i

\* msg is the reply to the request of slot i, whose node is node: a chunk
\* proof or a merge result indexed by i, or the final proof a worker sends
\* instead of the merge result of the pair that node holds
is_reply_for(msg, i, node) ==
    \/ msg.tag \in {"RiscvResponse", "CombineResponse"} /\ msg.chunk_index = i
    \/ /\ msg.tag = "Embed"
       /\ Len(node.proofs) = 2
       /\ msg.proof = <<node.proofs[1].inner[1], node.proofs[2].inner[2]>>

\* the number of work items outstanding for slot i: requests queued for the
\* workers, requests a worker is executing, replies in flight to the gateway
work_items(i, node) ==
    Cardinality({k \in 1..Len(to_workers) : is_request_for(to_workers[k], i)})
        + Cardinality({w \in Workers : prover[w].pc = "busy"
                                          /\ is_request_for(prover[w].msg, i)})
        + Cardinality({k \in 1..Len(to_gateway) : is_reply_for(to_gateway[k], i, node)})

\* every request and every indexed reply that is outstanding names a live slot
items_name_live_slots ==
    /\ \A k \in 1..Len(to_workers) :
           to_workers[k].tag \in {"RiscvRequest", "CombineRequest"} =>
               to_workers[k].chunk_index \in DOMAIN gateway_handler.proof_tree
    /\ \A w \in Workers :
           prover[w].pc = "busy" =>
               prover[w].msg.chunk_index \in DOMAIN gateway_handler.proof_tree
    /\ \A k \in 1..Len(to_gateway) :
           to_gateway[k].tag \in {"RiscvResponse", "CombineResponse"} =>
               to_gateway[k].chunk_index \in DOMAIN gateway_handler.proof_tree

\* C32: while the gateway runs its loop, every InProgress slot of its tree has
\* exactly one outstanding work item (a request queued for the workers, a
\* request one worker is executing, or the reply to it in flight to the
\* gateway), no Proved slot has any, and no outstanding item names a slot that
\* is not live.
C32_OneWorkItemPerSlot ==
    gateway_pc = "running" =>
        /\ \A i \in DOMAIN gateway_handler.proof_tree :
               work_items(i, gateway_handler.proof_tree[i]) =
                   IF gateway_handler.proof_tree[i].kind = "InProgress" THEN 1 ELSE 0
        /\ items_name_live_slots

\* chunks 0 and 1 were paired into slot 1, whose merge request is queued for
\* the workers, while a worker is executing the chunk request of slot 2
C32_Witness ==
    /\ gateway_pc = "running"
    /\ num_chunks = 3
    /\ DOMAIN gateway_handler.proof_tree = {1, 2}
    /\ gateway_handler.proof_tree[1].kind = "InProgress"
    /\ Len(gateway_handler.proof_tree[1].proofs) = 2
    /\ gateway_handler.proof_tree[2].kind = "InProgress"
    /\ \E k \in 1..Len(to_workers) : is_request_for(to_workers[k], 1)
    /\ \E w \in Workers : prover[w].pc = "busy" /\ is_request_for(prover[w].msg, 2)

\* the gateway takes a chunk proof or a merge result from the workers' channel
applies_reply ==
    /\ gateway_pc = "running"
    /\ to_gateway # <<>>
    /\ Head(to_gateway).tag \in {"RiscvResponse", "CombineResponse"}
    /\ to_gateway' = Tail(to_gateway)

\* C33: a slot that leaves the gateway's tree was Proved in the state before;
\* an InProgress slot is never removed, so a reply the gateway applies names
\* a live InProgress slot and the slot lookup of set_proof does not fail (the
\* gateway does not panic and the slot is still there afterwards).
C33_OnlyProvedSlotsRemoved ==
    [][/\ \A j \in DOMAIN gateway_handler.proof_tree :
              j \notin DOMAIN gateway_handler'.proof_tree =>
                  gateway_handler.proof_tree[j].kind = "Proved"
       /\ applies_reply =>
              /\ Head(to_gateway).chunk_index \in DOMAIN gateway_handler.proof_tree
              /\ gateway_handler.proof_tree[Head(to_gateway).chunk_index].kind
                     = "InProgress"
              /\ Head(to_gateway).chunk_index \in DOMAIN gateway_handler'.proof_tree
              /\ gateway_pc' # "panicked"]_vars

\* slot 0 waits for the result of merging chunks 0 and 1 while the proof of
\* chunk 2 was applied next to it: slot 0 is still live and slot 2 is Proved
C33_Witness ==
    /\ num_chunks = 3
    /\ DOMAIN gateway_handler.proof_tree = {0, 2}
    /\ gateway_handler.proof_tree[0].kind = "InProgress"
    /\ Len(gateway_handler.proof_tree[0].proofs) = 2
    /\ gateway_handler.proof_tree[2].kind = "Proved"
    /\ Len(merge_log) = 1
    /\ gateway_pc = "running"

\* the proof of some run for key was written to the database
durable_write_succeeded(key) ==
    \E k \in 1..Len(done_log) : done_log[k].task.key = key /\ done_log[k].stored

\* C34: for an identity whose durable write succeeds, once a lookup has been
\* served the proof from memory, no lookup that comes after it for the same
\* identity answers that there is no proof, also when it runs before the
\* durable write is over.
C34_AvailabilityMonotonic ==
    \A c, d \in 1..MaxLookups :
        (/\ c < d
         /\ lookup[c].pc = "done"
         /\ lookup[c].tier = "memory"
         /\ lookup[c].bytes # <<>>
         /\ lookup[d].pc = "done"
         /\ lookup[d].key = lookup[c].key
         /\ durable_write_succeeded(lookup[c].key)) =>
            lookup[d].tier # "none"

\* the message the gateway loop would take next, if any: select_biased takes
\* the producer channel first
next_for_gateway ==
    IF emulator_chan # <<>> THEN <<"emulator", Head(emulator_chan)>>
    ELSE IF to_gateway # <<>> THEN <<"workers", Head(to_gateway)>>
    ELSE <<>>

\* the gateway accepts the message on the channel it comes from, and the
\* handler, which has no final proof yet, does not reject it
accepted_by_gateway(from, msg, h) ==
    IF from = "emulator"
    THEN \/ msg.tag = "EmulatorComplete"
         \/ msg.tag = "RiscvRequest" /\ msg.chunk_index \notin DOMAIN h.proof_tree
    ELSE \/ msg.tag \in {"RequestTask", "Embed"}
         \/ /\ msg.tag \in {"RiscvResponse", "CombineResponse"}
            /\ msg.chunk_index \in DOMAIN h.proof_tree

\* C35: in a run without stage failures no thread aborts: neither the gateway
\* nor a prover panics; whatever the running gateway takes next is a message
\* it accepts on that channel and its handler, not yet complete, does not
\* reject (never the worker's Exit); and the workers' queue holds only chunk
\* requests, merge requests or Exit.
C35_NoProtocolError ==
    /\ gateway_pc # "panicked"
    /\ \A w \in Workers : prover[w].pc # "panicked"
    /\ (gateway_pc = "running" /\ next_for_gateway # <<>>) =>
           /\ ~complete(gateway_handler)
           /\ accepted_by_gateway(next_for_gateway[1], next_for_gateway[2],
                                  gateway_handler)
    /\ \A k \in 1..Len(to_workers) :
           to_workers[k].tag \in {"RiscvRequest", "CombineRequest", "Exit"}

\* the gateway took the final proof and left its loop; the Exit the worker
\* sent after it is still in the channel and was never handed to the handler
C35_Witness ==
    /\ gateway_pc = "exited"
    /\ published
    /\ to_gateway # <<>>
    /\ Head(to_gateway) = Exit
    /\ \E w \in Workers : prover[w].pc = "exited"
    /\ \E w \in Workers : prover[w].pc = "recv"

\* C36: after the completion signal has fired, every prover thread of the
\* run eventually ends: none stays blocked on receive (or anywhere else)
\* forever.
C36_WorkersLeaveAfterCompletion ==
    published ~> \A w \in Workers : ended(prover[w])

\* after a published run with two provers, one has left on the fast path after
\* sending Exit itself and the other has left on the closed channel
C36_Witness ==
    /\ published
    /\ task_pc = "returned"
    /\ prover_count = 2
    /\ \E w \in Workers : prover[w].pc = "exited" /\ prover[w].verified = "ok"
    /\ \E w \in Workers : prover[w].pc = "exited" /\ prover[w].verified = "none"

\* every chunk of the run is folded into node: it is the slot of a one-chunk
\* run, or the proofs it holds cover chunks 0..num_chunks-1 together
folded_all(node) ==
    IF num_chunks = 1 THEN TRUE
    ELSE /\ node.proofs # <<>>
         /\ node.proofs[1].start_chunk = 0
         /\ node.proofs[Len(node.proofs)].end_chunk = num_chunks - 1

\* C37: in every state of a run the gateway's tree has exactly one live slot
\* if and only if every chunk of the run has been registered and all of them
\* have been folded into that one slot.
C37_LenOneIffRootRemains ==
    (len(gateway_handler.proof_tree) = 1)
        <=> /\ Len(applied_log) = num_chunks
            /\ \E i \in DOMAIN gateway_handler.proof_tree :
                   folded_all(gateway_handler.proof_tree[i])

\* C37, amended: once every chunk of the run has been registered, the
\* gateway's tree has exactly one live slot if and only if all chunks have
\* been folded into one slot.
C37_LenOneIffRootOnceDrained ==
    Len(applied_log) = num_chunks =>
        ((len(gateway_handler.proof_tree) = 1)
            <=> \E i \in DOMAIN gateway_handler.proof_tree :
                    folded_all(gateway_handler.proof_tree[i]))

\* three chunks are registered and only the root reduction remains: the one
\* live slot waits for the merge of the proofs that cover chunks 0..2
C37_Witness ==
    /\ num_chunks = 3
    /\ Len(applied_log) = 3
    /\ len(gateway_handler.proof_tree) = 1
    /\ \E i \in DOMAIN gateway_handler.proof_tree :
           /\ gateway_handler.proof_tree[i].kind = "InProgress"
           /\ folded_all(gateway_handler.proof_tree[i])
    /\ gateway_pc = "running"

\* C38: a set_proof call lowers len() by exactly 1 when it returns a pair and
\* leaves it unchanged when it returns nothing; only init_node makes the tree
\* grow, so once every index has been registered the tree only shrinks.
C38_SetProofNeverGrows ==
    [][/\ t_call'.op = "set_proof" =>
              len(tree') = IF t_call'.ret # <<>> THEN len(tree) - 1 ELSE len(tree)
       /\ t_call'.op # "init_node" => len(tree') <= len(tree)
       /\ t_inits = 0..MaxIndex => len(tree') <= len(tree)]_vars

\* every index is registered, one set_proof call has returned a pair and the
\* last one returned nothing: the tree is one slot shorter than at its longest
C38_Witness ==
    /\ t_inits = 0..MaxIndex
    /\ t_merges = 1
    /\ len(tree) = MaxIndex
    /\ t_call.op = "set_proof"
    /\ t_call.ret = <<>>

=============================================================================
